---- MODULE Spec2Model ----
(***************************************************************************)
(* State-machine model of the XDP DDoS scrubber data plane                 *)
(* (src/src/bpf/xdp_main.c and the modules it includes).                   *)
(*                                                                         *)
(* Representation of machine integers.  TLC integers are 32-bit signed,    *)
(* so a __u32 is a pair of 16-bit limbs <<lo, hi>> and a __u64 is four     *)
(* 16-bit limbs, least significant first.  IPv4 addresses are the four     *)
(* bytes as they stand in the frame.  A __be16 port field holds the value  *)
(* a little-endian CPU reads from the two wire bytes; bpf_ntohs/bpf_htons  *)
(* swap the bytes.  The clock counts milliseconds: every nanosecond        *)
(* constant of the source is divided by 10^6, and packets arrive on whole  *)
(* milliseconds, so floor(elapsed_ns * rate / 10^9) is computed exactly as *)
(* floor(elapsed_ms * rate / 10^3).                                        *)
(***************************************************************************)
EXTENDS Integers, Naturals, Sequences, FiniteSets, TLC

(* ------------------------------------------------------------------ *)
(* 16-bit limb arithmetic                                               *)
(* ------------------------------------------------------------------ *)
W16 == 2 ^ 16

RECURSIVE Xor16(_, _)
Xor16(a, b) ==
    IF a = 0 THEN b
    ELSE IF b = 0 THEN a
    ELSE ((a + b) % 2) + 2 * Xor16(a \div 2, b \div 2)

Pow2(n) == 2 ^ n

(* __u64 operations on <<l1, l2, l3, l4>>, l1 least significant *)
U64Xor(x, y) ==
    <<Xor16(x[1], y[1]), Xor16(x[2], y[2]), Xor16(x[3], y[3]), Xor16(x[4], y[4])>>

U64Add(x, y) ==
    LET s1 == x[1] + y[1]
        s2 == x[2] + y[2] + (s1 \div W16)
        s3 == x[3] + y[3] + (s2 \div W16)
        s4 == x[4] + y[4] + (s3 \div W16)
    IN  <<s1 % W16, s2 % W16, s3 % W16, s4 % W16>>

(* rotate left by 16*q limbs *)
U64RotLimbs(x, q) ==
    <<x[((4 - q) % 4) + 1], x[((5 - q) % 4) + 1],
      x[((6 - q) % 4) + 1], x[((7 - q) % 4) + 1]>>

(* (v << r) | (v >> (64 - r)) for 0 <= r < 64 *)
U64Rotl(x, r) ==
    LET q == r \div 16
        b == r % 16
        y == U64RotLimbs(x, q)
    IN  IF b = 0 THEN y
        ELSE <<((y[1] * Pow2(b)) % W16) + (y[4] \div Pow2(16 - b)),
               ((y[2] * Pow2(b)) % W16) + (y[1] \div Pow2(16 - b)),
               ((y[3] * Pow2(b)) % W16) + (y[2] \div Pow2(16 - b)),
               ((y[4] * Pow2(b)) % W16) + (y[3] \div Pow2(16 - b))>>

(* ------------------------------------------------------------------ *)
(* SipHash-2-4 as simplified in helpers.h                               *)
(* ------------------------------------------------------------------ *)
(* F applied to the value of x.  x is computed before F is entered, so   *)
(* a chain of rounds is evaluated one round at a time (TLC would        *)
(* otherwise evaluate the whole chain on demand, nested).               *)
Then(x, F(_)) == CHOOSE r \in {F(y) : y \in {x}} : TRUE

(* SIPROUND of helpers.h, statement by statement in four groups *)
SipAdd(v)  == <<U64Add(v[1], v[2]), v[2], U64Add(v[3], v[4]), v[4]>>

SipRot(v)  == <<U64Rotl(v[1], 32), U64Xor(U64Rotl(v[2], 13), v[1]),
                v[3], U64Xor(U64Rotl(v[4], 16), v[3])>>

SipAdd2(v) == <<U64Add(v[1], v[4]), v[2], U64Add(v[3], v[2]), v[4]>>

SipRot2(v) == <<v[1], U64Xor(U64Rotl(v[2], 17), v[3]),
                U64Rotl(v[3], 32), U64Xor(U64Rotl(v[4], 21), v[1])>>

SIPROUND(v) ==
    Then(SipAdd(v), LAMBDA a :
    Then(SipRot(a), LAMBDA b :
    Then(SipAdd2(b), LAMBDA c :
    SipRot2(c))))

(* n times SIPROUND *)
RECURSIVE SipRounds(_, _)
SipRounds(v, n) ==
    IF n = 0 THEN v
    ELSE Then(SIPROUND(v), LAMBDA w : SipRounds(w, n - 1))

(* v3 ^= m; SIPROUND; SIPROUND; v0 ^= m *)
SipInject(v, m) ==
    Then(SipRounds(<<v[1], v[2], v[3], U64Xor(v[4], m)>>, 2), LAMBDA w :
    <<U64Xor(w[1], m), w[2], w[3], w[4]>>)

(* the message words injected one after the other *)
RECURSIVE SipAbsorb(_, _)
SipAbsorb(v, ms) ==
    IF ms = <<>> THEN v
    ELSE Then(SipInject(v, Head(ms)), LAMBDA w : SipAbsorb(w, Tail(ms)))

(* v2 ^= 0xff; four SIPROUNDs; v0 ^ v1 ^ v2 ^ v3 *)
SipFinal(v) ==
    Then(SipRounds(<<v[1], v[2], U64Xor(v[3], <<255, 0, 0, 0>>), v[4]>>, 4), LAMBDA f :
    U64Xor(U64Xor(f[1], f[2]), U64Xor(f[3], f[4])))

(* src_ip, dst_ip: __u32 as <<lo, hi>>; src_port, dst_port: host-order __u16 *)
siphash_2_4(key0, key1, src_ip, dst_ip, src_port, dst_port) ==
    LET v0 == U64Xor(key0, <<25973, 28787, 28005, 29551>>)   \* 0x736f6d6570736575
        v1 == U64Xor(key1, <<28525, 28260, 29281, 25711>>)   \* 0x646f72616e646f6d
        v2 == U64Xor(key0, <<29281, 28261, 26469, 27769>>)   \* 0x6c7967656e657261
        v3 == U64Xor(key1, <<25971, 31092, 25698, 29797>>)   \* 0x7465646279746573
        m1 == <<src_ip[1], src_ip[2], dst_ip[1], dst_ip[2]>>
        m2 == <<src_port, dst_port, 1536, 0>>                \* 0x0600 << 32
    IN  Then(SipAbsorb(<<v0, v1, v2, v3>>, <<m1, m2>>), SipFinal)

(* ------------------------------------------------------------------ *)
(* Constants of types.h                                                 *)
(* ------------------------------------------------------------------ *)
VERDICT_PASS == 0
VERDICT_DROP == 1
VERDICT_TX   == 2

XDP_DROP == 1
XDP_PASS == 2
XDP_TX   == 3

IPPROTO_ICMP == 1
IPPROTO_TCP  == 6
IPPROTO_UDP  == 17

ETH_P_IP    == 2048      \* 0x0800
ETH_P_8021Q == 33024     \* 0x8100
ETH_P_8021AD == 34984    \* 0x88A8
ETH_HLEN    == 14
IPHDR_LEN   == 20
TCPHDR_LEN  == 20
UDPHDR_LEN  == 8
ICMPHDR_LEN == 8
VLAN_HLEN   == 4

CFG_ENABLED            == 0
CFG_SYN_RATE_PPS       == 1
CFG_UDP_RATE_PPS       == 2
CFG_ICMP_RATE_PPS      == 3
CFG_GLOBAL_PPS_LIMIT   == 4
CFG_GLOBAL_BPS_LIMIT   == 5
CFG_SYN_COOKIE_ENABLE  == 6
CFG_CONNTRACK_ENABLE   == 7
CFG_GEOIP_ENABLE       == 11
CFG_REPUTATION_ENABLE  == 12
CFG_REPUTATION_THRESH  == 13
CFG_PROTO_VALID_ENABLE == 14
CFG_PAYLOAD_MATCH_EN   == 15
CFG_ESCALATION_LEVEL   == 16
CFG_THREAT_INTEL_EN    == 17
CFG_DNS_VALID_MODE     == 18
CFG_TCP_STATE_ENABLE   == 19

CfgKeys == {CFG_ENABLED, CFG_SYN_RATE_PPS, CFG_UDP_RATE_PPS, CFG_ICMP_RATE_PPS,
            CFG_GLOBAL_PPS_LIMIT, CFG_GLOBAL_BPS_LIMIT, CFG_SYN_COOKIE_ENABLE,
            CFG_CONNTRACK_ENABLE, CFG_GEOIP_ENABLE, CFG_REPUTATION_ENABLE,
            CFG_REPUTATION_THRESH, CFG_PROTO_VALID_ENABLE, CFG_PAYLOAD_MATCH_EN,
            CFG_ESCALATION_LEVEL, CFG_THREAT_INTEL_EN, CFG_DNS_VALID_MODE,
            CFG_TCP_STATE_ENABLE}

ESCALATION_HIGH     == 2
ESCALATION_CRITICAL == 3

CT_STATE_NEW         == 0
CT_STATE_SYN_SENT    == 1
CT_STATE_SYN_RECV    == 2
CT_STATE_ESTABLISHED == 3
CT_STATE_FIN_WAIT    == 4
CT_STATE_CLOSED      == 5
CT_STATE_TIME_WAIT   == 6

CT_FLAG_SYN_COOKIE_VERIFIED == 1

GEOIP_ACTION_PASS       == 0
GEOIP_ACTION_DROP       == 1
GEOIP_ACTION_RATE_LIMIT == 2
GEOIP_ACTION_MONITOR    == 3

REP_WEIGHT_SYN_NO_ACK    == 50
REP_WEIGHT_RATE_EXCEEDED == 30
REP_WEIGHT_PROTO_ANOMALY == 40
REP_WEIGHT_BAD_PAYLOAD   == 60
REP_WEIGHT_FRAGMENT      == 20
REP_WEIGHT_PORT_SCAN     == 70
REP_WEIGHT_DECAY_TICK    == 5

TCP_FLAG_FIN == 1
TCP_FLAG_SYN == 2
TCP_FLAG_RST == 4
TCP_FLAG_PSH == 8
TCP_FLAG_ACK == 16
TCP_FLAG_URG == 32
TCP_FLAG_ECE == 64
TCP_FLAG_CWR == 128

ATTACK_NONE            == 0
ATTACK_SYN_FLOOD       == 1
ATTACK_UDP_FLOOD       == 2
ATTACK_ICMP_FLOOD      == 3
ATTACK_ACK_FLOOD       == 4
ATTACK_DNS_AMP         == 5
ATTACK_NTP_AMP         == 6
ATTACK_SSDP_AMP        == 7
ATTACK_MEMCACHED_AMP   == 8
ATTACK_FRAGMENT        == 9
ATTACK_GEOIP_BLOCK     == 11
ATTACK_REPUTATION      == 12
ATTACK_PROTO_VIOLATION == 13
ATTACK_PAYLOAD_MATCH   == 14
ATTACK_THREAT_INTEL    == 15

DROP_BLACKLIST     == 1
DROP_RATE_LIMIT    == 2
DROP_SYN_FLOOD     == 3
DROP_UDP_FLOOD     == 4
DROP_ICMP_FLOOD    == 5
DROP_ACK_INVALID   == 6
DROP_DNS_AMP       == 7
DROP_NTP_AMP       == 8
DROP_FRAGMENT      == 9
DROP_PARSE_ERROR   == 10
DROP_FINGERPRINT   == 11
DROP_GEOIP         == 12
DROP_REPUTATION    == 13
DROP_PROTO_INVALID == 14
DROP_PAYLOAD_MATCH == 15
DROP_SSDP_AMP      == 16
DROP_MEMCACHED_AMP == 17
DROP_TCP_STATE     == 18
DROP_THREAT_INTEL  == 19

(* One clock unit is a millisecond: 10^9 ns = 1000 units. *)
NSEC_PER_SEC == 1000
REP_DECAY_INTERVAL_NS == NSEC_PER_SEC
PORT_SCAN_WINDOW_NS   == 10 * NSEC_PER_SEC
PORT_SCAN_THRESHOLD   == 20
REP_DECAY_MAX_INTERVALS == 60
REP_SCORE_MAX == 1000
REP_THRESH_DEFAULT == 500
TCP_VIOLATION_LIMIT == 3
MAX_SIG_CHECK == 8
PAYLOAD_MAX_CHECK == 8
PAYLOAD_PATTERN_MAX_LEN == 16
FRAG_MIN_SIZE == 68
ICMP_MAX_SIZE == 1024
MAX_OFFSET == 1500
THREAT_INTEL_RATE_LIMIT_DIVISOR == 4
GEOIP_RATE_LIMIT_DIVISOR == 2
PAYLOAD_RATE_LIMIT_DIVISOR == 4

(* ------------------------------------------------------------------ *)
(* Bit operations on small machine words                                *)
(* ------------------------------------------------------------------ *)
(* (x & bit) != 0 for a single-bit mask *)
HasBit(x, bit) == (x \div bit) % 2 = 1

RECURSIVE And16(_, _)
And16(a, b) ==
    IF a = 0 \/ b = 0 THEN 0
    ELSE ((a % 2) * (b % 2)) + 2 * And16(a \div 2, b \div 2)

Swap16(x) == (x % 256) * 256 + (x \div 256)
bpf_ntohs(x) == Swap16(x)
bpf_htons(x) == Swap16(x)

(* the __u32 a little-endian CPU loads from four frame bytes *)
LoadU32(b) == <<b[1] + 256 * b[2], b[3] + 256 * b[4]>>

U32Zero == <<0, 0>>

(* x + 1 and x - 1 modulo 2^32 *)
U32Inc(x) ==
    IF x[1] + 1 < W16 THEN <<x[1] + 1, x[2]>>
    ELSE <<0, (x[2] + 1) % W16>>
U32Dec(x) ==
    IF x[1] > 0 THEN <<x[1] - 1, x[2]>>
    ELSE <<W16 - 1, (x[2] + W16 - 1) % W16>>

min_u64(a, b) == IF a < b THEN a ELSE b

(* ------------------------------------------------------------------ *)
(* Parser (parser.h).  A frame is a record of its header fields and    *)
(* of len, the number of bytes between data and data_end.  h_proto is   *)
(* the sequence of ethertypes met: the Ethernet header's and then the   *)
(* inner ethertype of every VLAN tag.  Multi-byte fields are given by   *)
(* value; source/dest are the port numbers the sender wrote.            *)
(* ------------------------------------------------------------------ *)
(* bounds_check that lets an access end one byte after the frame *)
bounds_check_one_past(ptr, size, data_end) == ptr + size <= data_end + 1

bounds_check(ptr, size, data_end) == ptr + size <= data_end

IsVlan(proto) == proto = ETH_P_8021Q \/ proto = ETH_P_8021AD

(* The packet context as xdp_main.c:51 ("= {}") and parse_packet:23-34  *)
(* leave it before any header is read.  payload_offset and l4_offset    *)
(* are assigned nowhere in the source: they keep the zero of "= {}".    *)
EmptyPkt(ctx) ==
    [ data_end |-> ctx.len, eth_proto |-> 0, ip_proto |-> 0,
      src_ip |-> <<0, 0, 0, 0>>, dst_ip |-> <<0, 0, 0, 0>>,
      pkt_len |-> 0, ttl |-> 0, is_fragment |-> 0,
      l4_hdr |-> 0, src_port |-> 0, dst_port |-> 0, tcp_flags |-> 0,
      l4_payload_len |-> 0, tcp_seq |-> U32Zero, tcp_ack_seq |-> U32Zero,
      payload |-> 0, l4_payload_hash4 |-> U32Zero,
      payload_offset |-> 0, l4_offset |-> 0 ]

(* bytes of the frame at offset p .. p+3, when they lie in the frame *)
PayloadWord(ctx, p, l4end) ==
    LET k == p - l4end
    IN  LoadU32([i \in 1..4 |-> IF k + i <= Len(ctx.payload)
                                THEN ctx.payload[k + i] ELSE 0])

(* L4 part of parse_packet (parser.h:94-170); l4 is the offset of the   *)
(* L4 header, pkt the context filled so far.  Result: [rc, pkt].        *)
ParseL4(ctx, pkt, l4, ip_hdr_len) ==
    LET l4_len == IF pkt.pkt_len > ip_hdr_len THEN pkt.pkt_len - ip_hdr_len ELSE 0
        WithPayload(q, p) ==
            IF p + 4 <= ctx.len
            THEN [q EXCEPT !.payload = p, !.l4_payload_hash4 = PayloadWord(ctx, p, p)]
            ELSE IF p < ctx.len THEN [q EXCEPT !.payload = p] ELSE q
    IN  CASE ctx.protocol = IPPROTO_TCP ->
               IF ~bounds_check(l4, TCPHDR_LEN, ctx.len) THEN [rc |-> -1, pkt |-> pkt]
               ELSE LET tcp_hdr_len == ctx.doff * 4
                        q == [pkt EXCEPT !.l4_hdr = l4,
                                         !.src_port = bpf_htons(ctx.source),
                                         !.dst_port = bpf_htons(ctx.dest),
                                         !.tcp_flags = ctx.flags,
                                         !.tcp_seq = ctx.seq,
                                         !.tcp_ack_seq = ctx.ack_seq]
                    IN  IF tcp_hdr_len < TCPHDR_LEN THEN [rc |-> -1, pkt |-> q]
                        ELSE [rc |-> 0,
                              pkt |-> WithPayload(
                                  [q EXCEPT !.l4_payload_len =
                                      IF l4_len > tcp_hdr_len THEN l4_len - tcp_hdr_len ELSE 0],
                                  l4 + tcp_hdr_len)]
          [] ctx.protocol = IPPROTO_UDP ->
               IF ~bounds_check(l4, UDPHDR_LEN, ctx.len) THEN [rc |-> -1, pkt |-> pkt]
               ELSE [rc |-> 0,
                     pkt |-> WithPayload(
                         [pkt EXCEPT !.l4_hdr = l4,
                                     !.src_port = bpf_htons(ctx.source),
                                     !.dst_port = bpf_htons(ctx.dest),
                                     !.l4_payload_len =
                                        IF l4_len > UDPHDR_LEN THEN l4_len - UDPHDR_LEN ELSE 0],
                         l4 + UDPHDR_LEN)]
          [] ctx.protocol = IPPROTO_ICMP ->
               IF ~bounds_check(l4, ICMPHDR_LEN, ctx.len) THEN [rc |-> -1, pkt |-> pkt]
               ELSE [rc |-> 0,
                     pkt |-> [pkt EXCEPT !.l4_hdr = l4,
                                         !.src_port = 0,
                                         !.dst_port = bpf_htons(ctx.icmp_type),
                                         !.l4_payload_len =
                                            IF l4_len > ICMPHDR_LEN THEN l4_len - ICMPHDR_LEN ELSE 0]]
          [] OTHER ->
               [rc |-> 0, pkt |-> [pkt EXCEPT !.l4_hdr = l4, !.l4_payload_len = l4_len]]

(* Offset of the IPv4 header after at most two VLAN tags, the ethertype *)
(* found there, and whether a bounds check failed (parser.h:44-58).     *)
SkipVlan(ctx) ==
    LET p1 == ctx.h_proto[1]
    IN  IF ~IsVlan(p1) THEN [ok |-> TRUE, l3 |-> ETH_HLEN, proto |-> p1]
        ELSE IF ~bounds_check(ETH_HLEN, VLAN_HLEN, ctx.len)
             THEN [ok |-> FALSE, l3 |-> ETH_HLEN, proto |-> p1]
        ELSE LET p2 == ctx.h_proto[2]
             IN  IF ~IsVlan(p2)
                 THEN [ok |-> TRUE, l3 |-> ETH_HLEN + VLAN_HLEN, proto |-> p2]
                 ELSE IF ~bounds_check(ETH_HLEN + VLAN_HLEN, VLAN_HLEN, ctx.len)
                      THEN [ok |-> FALSE, l3 |-> ETH_HLEN + VLAN_HLEN, proto |-> p2]
                 ELSE [ok |-> TRUE, l3 |-> ETH_HLEN + 2 * VLAN_HLEN,
                       proto |-> ctx.h_proto[3]]

IsFragOff(frag_off) == (frag_off % 8192) # 0 \/ HasBit(frag_off, 8192)

(* parse_packet: [rc, pkt] with rc = 0 (parsed) or -1 (parse error) *)
parse_packet(ctx) ==
    LET pkt0 == EmptyPkt(ctx)
    IN  IF ~bounds_check(0, ETH_HLEN, ctx.len) THEN [rc |-> -1, pkt |-> pkt0]
        ELSE LET v == SkipVlan(ctx)
                 pkt1 == [pkt0 EXCEPT !.eth_proto = v.proto]
             IN  IF ~v.ok THEN [rc |-> -1, pkt |-> pkt0]
                 ELSE IF v.proto # ETH_P_IP THEN [rc |-> -1, pkt |-> pkt1]
                 ELSE IF ~bounds_check(v.l3, IPHDR_LEN, ctx.len) THEN [rc |-> -1, pkt |-> pkt1]
                 ELSE IF ctx.ihl < 5 THEN [rc |-> -1, pkt |-> pkt1]
                 ELSE IF ~bounds_check(v.l3, ctx.ihl * 4, ctx.len) THEN [rc |-> -1, pkt |-> pkt1]
                 ELSE LET pkt2 == [pkt1 EXCEPT !.ip_proto = ctx.protocol,
                                               !.src_ip = ctx.saddr,
                                               !.dst_ip = ctx.daddr,
                                               !.pkt_len = ctx.tot_len,
                                               !.ttl = ctx.ttl,
                                               !.is_fragment =
                                                  IF IsFragOff(ctx.frag_off) THEN 1 ELSE 0]
                      IN  IF (ctx.frag_off % 8192) # 0 THEN [rc |-> 0, pkt |-> pkt2]
                          ELSE ParseL4(ctx, pkt2, v.l3 + ctx.ihl * 4, ctx.ihl * 4)

(* ---------------------------------------------------------------- *)
(* Maps.  The control plane owns the first group; the XDP program     *)
(* writes the second group.  A hash map is a function whose DOMAIN is *)
(* the set of keys present; an LPM trie is a function from prefixes   *)
(* [prefixlen, addr] to values.                                       *)
(* ---------------------------------------------------------------- *)
VARIABLES config, whitelist_v4, blacklist_v4, threat_intel_map, geoip_map,
          geoip_policy, attack_sig_map, attack_sig_cnt, payload_rule_map,
          payload_rule_cnt, port_proto_map, syn_cookie_map

VARIABLES stats_map, events, rate_limit_map, global_rate_map, conntrack_map,
          reputation_map, port_scan_map, adaptive_rate_map, payload_hits

(* records the events ring buffer can still reserve before its consumer *)
(* frees some                                                           *)
VARIABLES ring_free

(* the monotonic clock, the last packet's outcome, packets seen so far *)
VARIABLES now, last, npkts

(* a second CPU: its slots of the per-CPU maps (maps.h: rate_limit_map,  *)
(* conntrack_map, reputation_map, port_scan_map, stats_map and           *)
(* global_rate_map are PERCPU), and the packets that workers are in the  *)
(* middle of a stage with                                                *)
VARIABLES percpu, inflight

ctl_vars == <<config, whitelist_v4, blacklist_v4, threat_intel_map, geoip_map,
              geoip_policy, attack_sig_map, attack_sig_cnt, payload_rule_map,
              payload_rule_cnt, port_proto_map, syn_cookie_map>>

dp_vars == <<stats_map, events, rate_limit_map, global_rate_map, conntrack_map,
             reputation_map, port_scan_map, adaptive_rate_map, payload_hits,
             ring_free>>

smp_vars == <<percpu, inflight>>

vars == <<ctl_vars, dp_vars, smp_vars, now, last, npkts>>

EmptyMap == <<>>

Has(map, key) == key \in DOMAIN map

Put(map, key, val) == (key :> val) @@ map

(* bpf_map_lookup_elem on an LPM trie: the longest prefix covering addr *)
PrefixMatch(p, addr) ==
    LET full == p.prefixlen \div 8
        rem  == p.prefixlen % 8
    IN  /\ \A i \in 1..full : p.addr[i] = addr[i]
        /\ rem # 0 => p.addr[full + 1] \div Pow2(8 - rem)
                      = addr[full + 1] \div Pow2(8 - rem)

LpmMatches(trie, addr) == {p \in DOMAIN trie : PrefixMatch(p, addr)}

LpmHit(trie, addr) == LpmMatches(trie, addr) # {}

LpmGet(trie, addr) ==
    LET M == LpmMatches(trie, addr)
    IN  trie[CHOOSE p \in M : \A q \in M : q.prefixlen <= p.prefixlen]

(* get_config that reads a key holding 0 as switched on *)
get_config_zero_on(key) == IF config[key] = 0 THEN 1 ELSE config[key]

(* config_map is an array map: every key is present, 0 until written *)
get_config(key) == config[key]

(* The data-plane state one packet's walk threads through the stages *)
DpState ==
    [ stats |-> stats_map, events |-> events,
      rate_limit_map |-> rate_limit_map, global_rate_map |-> global_rate_map,
      conntrack_map |-> conntrack_map, reputation_map |-> reputation_map,
      port_scan_map |-> port_scan_map, adaptive_rate_map |-> adaptive_rate_map,
      payload_hits |-> payload_hits, ring_free |-> ring_free, reply |-> <<>> ]

StatNames ==
    { "rx_packets", "rx_bytes", "tx_packets", "tx_bytes",
      "dropped_packets", "dropped_bytes",
      "acl_dropped", "rate_limited", "syn_flood_dropped", "ack_flood_dropped",
      "udp_flood_dropped", "icmp_flood_dropped", "dns_amp_dropped",
      "ntp_amp_dropped", "fragment_dropped", "conntrack_new",
      "conntrack_established", "syn_cookies_sent", "syn_cookies_validated",
      "syn_cookies_failed", "geoip_dropped", "reputation_dropped",
      "proto_violation_dropped", "payload_match_dropped", "tcp_state_dropped",
      "ssdp_amp_dropped", "memcached_amp_dropped", "threat_intel_dropped",
      "reputation_auto_blocked", "dns_queries_validated",
      "dns_queries_blocked", "ntp_monlist_blocked", "tcp_state_violations",
      "port_scan_detected" }

Bump(st, name) == [st EXCEPT !.stats[name] = @ + 1]

stats_rx(st, pkt_len) ==
    [st EXCEPT !.stats["rx_packets"] = @ + 1, !.stats["rx_bytes"] = @ + pkt_len]

stats_drop(st, pkt_len) ==
    [st EXCEPT !.stats["dropped_packets"] = @ + 1,
               !.stats["dropped_bytes"] = @ + pkt_len]

stats_tx(st, pkt_len) ==
    [st EXCEPT !.stats["tx_packets"] = @ + 1, !.stats["tx_bytes"] = @ + pkt_len]

(* emit_event that counts a failed reservation as a dropped packet *)
emit_event_counted(st, pkt, attack_type, action, drop_reason) ==
    IF st.ring_free = 0 THEN Bump(st, "dropped_packets")
    ELSE [st EXCEPT !.events = Append(@, [src_ip |-> pkt.src_ip,
                                          protocol |-> pkt.ip_proto,
                                          attack_type |-> attack_type,
                                          action |-> action,
                                          drop_reason |-> drop_reason]),
                    !.ring_free = @ - 1]

(* bpf_ringbuf_reserve fails when the ring has no room: return at once *)
emit_event(st, pkt, attack_type, action, drop_reason) ==
    IF st.ring_free = 0 THEN st
    ELSE [st EXCEPT !.events = Append(@, [src_ip |-> pkt.src_ip,
                                          protocol |-> pkt.ip_proto,
                                          attack_type |-> attack_type,
                                          action |-> action,
                                          drop_reason |-> drop_reason]),
                    !.ring_free = @ - 1]

Ret(v, st) == [verdict |-> v, st |-> st]

(* ---------------- Stage 1: ACL (modules/acl.h) ------------------- *)
(* acl_check with the blacklist lookup left out *)
acl_check_no_blacklist(pkt, st) == Ret(VERDICT_PASS, st)

(* acl_check with the two lookups in the other order *)
acl_check_blacklist_first(pkt, st) ==
    IF LpmHit(blacklist_v4, pkt.src_ip)
    THEN Ret(VERDICT_DROP,
             emit_event(Bump(st, "acl_dropped"), pkt,
                        ATTACK_NONE, 1, DROP_BLACKLIST))
    ELSE Ret(VERDICT_PASS, st)

acl_check(pkt, st) ==
    IF LpmHit(whitelist_v4, pkt.src_ip) THEN Ret(VERDICT_PASS, st)
    ELSE IF LpmHit(blacklist_v4, pkt.src_ip)
         THEN Ret(VERDICT_DROP,
                  emit_event(Bump(st, "acl_dropped"), pkt,
                             ATTACK_NONE, 1, DROP_BLACKLIST))
    ELSE Ret(VERDICT_PASS, st)

(* the per-protocol base rate the intel/geoip stages derive an override from *)
BaseRate(pkt) ==
    CASE pkt.ip_proto = IPPROTO_TCP  -> get_config(CFG_SYN_RATE_PPS)
      [] pkt.ip_proto = IPPROTO_UDP  -> get_config(CFG_UDP_RATE_PPS)
      [] pkt.ip_proto = IPPROTO_ICMP -> get_config(CFG_ICMP_RATE_PPS)
      [] OTHER                       -> get_config(CFG_GLOBAL_PPS_LIMIT)

(* insert an adaptive override base_rate / divisor (at least 1) when the *)
(* source has none and the base rate is set                              *)
AdaptiveOverride(st, pkt, base_rate, divisor) ==
    IF Has(st.adaptive_rate_map, pkt.src_ip) \/ base_rate = 0 THEN st
    ELSE LET stricter == IF base_rate \div divisor = 0 THEN 1
                         ELSE base_rate \div divisor
         IN  [st EXCEPT !.adaptive_rate_map = Put(@, pkt.src_ip, stricter)]

(* ------------- Stage 2: threat intel (modules/threat_intel.h) ----- *)
(* threat_intel_check with the drop thresholds of the lowest and the   *)
(* highest escalation level exchanged                                  *)
threat_intel_check_relaxing(pkt, st) ==
    IF get_config(CFG_THREAT_INTEL_EN) = 0 THEN Ret(VERDICT_PASS, st)
    ELSE IF ~LpmHit(threat_intel_map, pkt.src_ip) THEN Ret(VERDICT_PASS, st)
    ELSE
      LET escalation == get_config(CFG_ESCALATION_LEVEL)
          entry == LpmGet(threat_intel_map, pkt.src_ip)
          drop_threshold ==
              IF escalation >= ESCALATION_CRITICAL THEN 80
              ELSE IF escalation >= ESCALATION_HIGH THEN 50 ELSE 30
          rate_limit_threshold ==
              IF escalation >= ESCALATION_CRITICAL THEN 10
              ELSE IF escalation >= ESCALATION_HIGH THEN 30 ELSE 50
      IN  CASE entry.action = 0 ->
                 IF entry.confidence >= drop_threshold
                 THEN Ret(VERDICT_DROP,
                          emit_event(stats_drop(Bump(st, "threat_intel_dropped"),
                                                pkt.pkt_len),
                                     pkt, ATTACK_THREAT_INTEL, 1, DROP_THREAT_INTEL))
                 ELSE Ret(VERDICT_PASS, st)
            [] entry.action = 1 ->
                 IF entry.confidence >= rate_limit_threshold
                 THEN Ret(VERDICT_PASS,
                          AdaptiveOverride(st, pkt, BaseRate(pkt),
                                           THREAT_INTEL_RATE_LIMIT_DIVISOR))
                 ELSE Ret(VERDICT_PASS, st)
            [] entry.action = 2 ->
                 Ret(VERDICT_PASS, emit_event(st, pkt, ATTACK_THREAT_INTEL, 0, 0))
            [] OTHER -> Ret(VERDICT_PASS, st)

threat_intel_check(pkt, st) ==
    IF get_config(CFG_THREAT_INTEL_EN) = 0 THEN Ret(VERDICT_PASS, st)
    ELSE IF ~LpmHit(threat_intel_map, pkt.src_ip) THEN Ret(VERDICT_PASS, st)
    ELSE
      LET escalation == get_config(CFG_ESCALATION_LEVEL)
          entry == LpmGet(threat_intel_map, pkt.src_ip)
          drop_threshold ==
              IF escalation >= ESCALATION_CRITICAL THEN 30
              ELSE IF escalation >= ESCALATION_HIGH THEN 50 ELSE 80
          rate_limit_threshold ==
              IF escalation >= ESCALATION_CRITICAL THEN 10
              ELSE IF escalation >= ESCALATION_HIGH THEN 30 ELSE 50
      IN  CASE entry.action = 0 ->
                 IF entry.confidence >= drop_threshold
                 THEN Ret(VERDICT_DROP,
                          emit_event(stats_drop(Bump(st, "threat_intel_dropped"),
                                                pkt.pkt_len),
                                     pkt, ATTACK_THREAT_INTEL, 1, DROP_THREAT_INTEL))
                 ELSE Ret(VERDICT_PASS, st)
            [] entry.action = 1 ->
                 IF entry.confidence >= rate_limit_threshold
                 THEN Ret(VERDICT_PASS,
                          AdaptiveOverride(st, pkt, BaseRate(pkt),
                                           THREAT_INTEL_RATE_LIMIT_DIVISOR))
                 ELSE Ret(VERDICT_PASS, st)
            [] entry.action = 2 ->
                 Ret(VERDICT_PASS, emit_event(st, pkt, ATTACK_THREAT_INTEL, 0, 0))
            [] OTHER -> Ret(VERDICT_PASS, st)

(* ---------------- Stage 3: GeoIP (modules/geoip.h) ---------------- *)
GeoDrop(pkt, st) ==
    Ret(VERDICT_DROP,
        emit_event(stats_drop(Bump(st, "geoip_dropped"), pkt.pkt_len),
                   pkt, ATTACK_GEOIP_BLOCK, 1, DROP_GEOIP))

geoip_check(pkt, st) ==
    IF get_config(CFG_GEOIP_ENABLE) = 0 THEN Ret(VERDICT_PASS, st)
    ELSE
      LET escalation == get_config(CFG_ESCALATION_LEVEL)
      IN  IF ~LpmHit(geoip_map, pkt.src_ip)
          THEN IF escalation >= ESCALATION_CRITICAL THEN GeoDrop(pkt, st)
               ELSE Ret(VERDICT_PASS, st)
          ELSE LET country == LpmGet(geoip_map, pkt.src_ip).country_code
               IN  IF ~Has(geoip_policy, country)
                   THEN IF escalation >= ESCALATION_CRITICAL THEN GeoDrop(pkt, st)
                        ELSE Ret(VERDICT_PASS, st)
                   ELSE LET action == geoip_policy[country]
                        IN  CASE action = GEOIP_ACTION_DROP -> GeoDrop(pkt, st)
                              [] action = GEOIP_ACTION_RATE_LIMIT ->
                                   Ret(VERDICT_PASS,
                                       AdaptiveOverride(st, pkt, BaseRate(pkt),
                                                        GEOIP_RATE_LIMIT_DIVISOR))
                              [] action = GEOIP_ACTION_MONITOR ->
                                   Ret(VERDICT_PASS,
                                       emit_event(st, pkt, ATTACK_GEOIP_BLOCK, 0, 0))
                              [] OTHER -> Ret(VERDICT_PASS, st)

(* ------------- Stage 4: reputation (modules/reputation.h) --------- *)
(* port_bitmap[0..1] is kept as the set of ports 0..63 whose bit is set *)
PortBits(port) == IF port < 64 THEN {port} ELSE {}

(* port_scan_detect: [penalty, st] *)
port_scan_detect(src_ip, dst_port, now_ns, st) ==
    LET port == bpf_ntohs(dst_port)
    IN  IF ~Has(st.port_scan_map, src_ip)
        THEN [penalty |-> 0,
              st |-> [st EXCEPT !.port_scan_map =
                         Put(@, src_ip, [window_start_ns |-> now_ns,
                                         distinct_ports |-> 1,
                                         port_bitmap |-> PortBits(port)])]]
        ELSE
          LET ps == st.port_scan_map[src_ip]
          IN  IF now_ns - ps.window_start_ns > PORT_SCAN_WINDOW_NS
              THEN [penalty |-> 0,
                    st |-> [st EXCEPT !.port_scan_map[src_ip] =
                               [window_start_ns |-> now_ns,
                                distinct_ports |-> 1,
                                port_bitmap |-> PortBits(port)]]]
              ELSE
                LET already_seen == port < 64 /\ port \in ps.port_bitmap
                    ps2 == [ps EXCEPT !.port_bitmap = @ \cup PortBits(port),
                                      !.distinct_ports =
                                          IF already_seen THEN @ ELSE @ + 1]
                    st2 == [st EXCEPT !.port_scan_map[src_ip] = ps2]
                IN  IF ps2.distinct_ports > PORT_SCAN_THRESHOLD
                    THEN [penalty |-> REP_WEIGHT_PORT_SCAN,
                          st |-> Bump(st2, "port_scan_detected")]
                    ELSE [penalty |-> 0, st |-> st2]

NewRep(score, total, violations, now_ns) ==
    [ score |-> score, total_packets |-> total, dropped_packets |-> 0,
      violation_count |-> violations, last_seen_ns |-> now_ns,
      last_decay_ns |-> now_ns, blocked |-> 0 ]

(* no cap *)
CapScore_none(score) == score

(* the cap both writers of an existing entry's score apply *)
CapScore(score) == IF score > REP_SCORE_MAX THEN REP_SCORE_MAX ELSE score

(* reputation_penalize: the reputation map after the penalty *)
reputation_penalize(rmap, src_ip, weight, now_ns) ==
    IF get_config(CFG_REPUTATION_ENABLE) = 0 THEN rmap
    ELSE IF ~Has(rmap, src_ip)
         THEN Put(rmap, src_ip, NewRep(weight, 0, 1, now_ns))
    ELSE [rmap EXCEPT ![src_ip] =
             [@ EXCEPT !.score = CapScore(@ + weight),
                       !.violation_count = @ + 1,
                       !.last_seen_ns = now_ns]]

RepDecay(rep, now_ns) ==
    IF now_ns - rep.last_decay_ns > REP_DECAY_INTERVAL_NS
    THEN LET n == (now_ns - rep.last_decay_ns) \div REP_DECAY_INTERVAL_NS
             elapsed_intervals == IF n > REP_DECAY_MAX_INTERVALS
                                  THEN REP_DECAY_MAX_INTERVALS ELSE n
             total_decay == elapsed_intervals * REP_WEIGHT_DECAY_TICK
         IN  [rep EXCEPT !.score = IF @ > total_decay THEN @ - total_decay ELSE 0,
                         !.last_decay_ns = now_ns]
    ELSE rep

(* reputation_check whose block lasts only while the decayed score is  *)
(* at or above the threshold                                          *)
reputation_check_unlatched(pkt, st, now_ns) ==
    IF get_config(CFG_REPUTATION_ENABLE) = 0 THEN Ret(VERDICT_PASS, st)
    ELSE IF ~Has(st.reputation_map, pkt.src_ip)
         THEN Ret(VERDICT_PASS,
                  [st EXCEPT !.reputation_map =
                      Put(@, pkt.src_ip, NewRep(0, 1, 0, now_ns))])
    ELSE LET threshold == IF get_config(CFG_REPUTATION_THRESH) = 0
                          THEN REP_THRESH_DEFAULT
                          ELSE get_config(CFG_REPUTATION_THRESH)
             rep1 == RepDecay([st.reputation_map[pkt.src_ip]
                                  EXCEPT !.total_packets = @ + 1,
                                         !.last_seen_ns = now_ns], now_ns)
         IN  IF rep1.score >= threshold
             THEN Ret(VERDICT_DROP,
                      emit_event(
                        stats_drop(Bump([st EXCEPT !.reputation_map[pkt.src_ip] =
                                            [rep1 EXCEPT !.blocked = 1,
                                                         !.dropped_packets = @ + 1]],
                                        "reputation_dropped"), pkt.pkt_len),
                        pkt, ATTACK_REPUTATION, 1, DROP_REPUTATION))
             ELSE Ret(VERDICT_PASS,
                      [st EXCEPT !.reputation_map[pkt.src_ip] =
                          [rep1 EXCEPT !.blocked = 0]])

reputation_check(pkt, st, now_ns) ==
    IF get_config(CFG_REPUTATION_ENABLE) = 0 THEN Ret(VERDICT_PASS, st)
    ELSE
      LET threshold == IF get_config(CFG_REPUTATION_THRESH) = 0
                       THEN REP_THRESH_DEFAULT
                       ELSE get_config(CFG_REPUTATION_THRESH)
      IN  IF ~Has(st.reputation_map, pkt.src_ip)
          THEN LET st1 == [st EXCEPT !.reputation_map =
                              Put(@, pkt.src_ip, NewRep(0, 1, 0, now_ns))]
               IN  Ret(VERDICT_PASS,
                       port_scan_detect(pkt.src_ip, pkt.dst_port, now_ns, st1).st)
          ELSE
            LET rep == st.reputation_map[pkt.src_ip]
            IN  IF rep.blocked # 0
                THEN LET rep1 == [rep EXCEPT !.total_packets = @ + 1,
                                             !.dropped_packets = @ + 1,
                                             !.last_seen_ns = now_ns]
                         st1 == [st EXCEPT !.reputation_map[pkt.src_ip] = rep1]
                     IN  Ret(VERDICT_DROP,
                             emit_event(stats_drop(Bump(st1, "reputation_dropped"),
                                                   pkt.pkt_len),
                                        pkt, ATTACK_REPUTATION, 1, DROP_REPUTATION))
                ELSE
                  LET rep1 == RepDecay([rep EXCEPT !.total_packets = @ + 1,
                                                   !.last_seen_ns = now_ns], now_ns)
                      scan == port_scan_detect(pkt.src_ip, pkt.dst_port, now_ns, st)
                      rep2 == IF scan.penalty > 0
                              THEN [rep1 EXCEPT !.score = CapScore(@ + scan.penalty),
                                                !.violation_count = @ + 1]
                              ELSE rep1
                  IN  IF rep2.score >= threshold
                      THEN LET rep3 == [rep2 EXCEPT !.blocked = 1,
                                                    !.dropped_packets = @ + 1]
                               st3 == [scan.st EXCEPT !.reputation_map[pkt.src_ip] = rep3]
                           IN  Ret(VERDICT_DROP,
                                   emit_event(
                                     stats_drop(Bump(Bump(st3, "reputation_dropped"),
                                                     "reputation_auto_blocked"),
                                                pkt.pkt_len),
                                     pkt, ATTACK_REPUTATION, 1, DROP_REPUTATION))
                      ELSE Ret(VERDICT_PASS,
                               [scan.st EXCEPT !.reputation_map[pkt.src_ip] = rep2])

(* ------------- Stage 5: fragments (modules/fragment.h) ------------ *)
(* fragment_check that lets first fragments through *)
fragment_check_allow_first(ctx, pkt, st) ==
    IF pkt.is_fragment = 0 \/ (ctx.frag_off % 8192) = 0 THEN Ret(VERDICT_PASS, st)
    ELSE Ret(VERDICT_DROP,
             emit_event(Bump(st, "fragment_dropped"), pkt,
                        ATTACK_FRAGMENT, 1, DROP_FRAGMENT))

fragment_check(ctx, pkt, st) ==
    IF pkt.is_fragment = 0 THEN Ret(VERDICT_PASS, st)
    ELSE IF ~bounds_check(0, ETH_HLEN, ctx.len) THEN Ret(VERDICT_PASS, st)
    ELSE
      LET v == SkipVlan(ctx)
      IN  IF ~v.ok \/ ~bounds_check(v.l3, IPHDR_LEN, ctx.len)
          THEN Ret(VERDICT_PASS, st)
          ELSE
            LET offset == (ctx.frag_off % 8192) * 8
                more_fragments == HasBit(ctx.frag_off, 8192)
            IN  IF offset > 0 \/ more_fragments
                THEN Ret(VERDICT_DROP,
                         emit_event(Bump(st, "fragment_dropped"), pkt,
                                    ATTACK_FRAGMENT, 1, DROP_FRAGMENT))
                ELSE Ret(VERDICT_PASS, st)

(* ----------- Stage 6: fingerprints (modules/fingerprint.h) -------- *)
payload_hash_4bytes(ctx, pkt) ==
    IF pkt.ip_proto = IPPROTO_TCP /\ pkt.l4_hdr # 0
    THEN LET p == pkt.l4_hdr + ((ctx.doff * 4) % 256)
         IN  IF p + 4 > pkt.data_end THEN U32Zero
             ELSE PayloadWord(ctx, p, pkt.l4_hdr + ctx.doff * 4)
    ELSE IF pkt.ip_proto = IPPROTO_UDP /\ pkt.l4_hdr # 0
    THEN LET p == pkt.l4_hdr + UDPHDR_LEN
         IN  IF p + 4 > pkt.data_end THEN U32Zero ELSE PayloadWord(ctx, p, p)
    ELSE U32Zero

ZeroSig ==
    [ protocol |-> 0, flags_mask |-> 0, flags_match |-> 0,
      src_port_min |-> 0, src_port_max |-> 0,
      dst_port_min |-> 0, dst_port_max |-> 0,
      pkt_len_min |-> 0, pkt_len_max |-> 0, payload_hash |-> U32Zero ]

(* attack_sig_map is an ARRAY: a slot never written holds zeroes *)
SigAt(idx) == IF Has(attack_sig_map, idx) THEN attack_sig_map[idx] ELSE ZeroSig

sig_matches(sig, ctx, pkt, src_port_h, dst_port_h) ==
    LET sp_min == bpf_ntohs(sig.src_port_min)
        sp_max == bpf_ntohs(sig.src_port_max)
        dp_min == bpf_ntohs(sig.dst_port_min)
        dp_max == bpf_ntohs(sig.dst_port_max)
    IN  /\ ~(sig.protocol # 0 /\ sig.protocol # pkt.ip_proto)
        /\ sig.flags_mask # 0 =>
              And16(pkt.tcp_flags, sig.flags_mask) = sig.flags_match
        /\ (sp_min # 0 \/ sp_max # 0) =>
              ~(src_port_h < sp_min \/ src_port_h > sp_max)
        /\ (dp_min # 0 \/ dp_max # 0) =>
              ~(dst_port_h < dp_min \/ dst_port_h > dp_max)
        /\ (sig.pkt_len_min # 0 \/ sig.pkt_len_max # 0) =>
              ~(pkt.pkt_len < sig.pkt_len_min \/ pkt.pkt_len > sig.pkt_len_max)
        /\ sig.payload_hash # U32Zero =>
              payload_hash_4bytes(ctx, pkt) = sig.payload_hash

fingerprint_check(ctx, pkt, st) ==
    IF attack_sig_cnt = 0 THEN Ret(VERDICT_PASS, st)
    ELSE
      LET count == IF attack_sig_cnt > MAX_SIG_CHECK THEN MAX_SIG_CHECK
                   ELSE attack_sig_cnt
          src_port_h == bpf_ntohs(pkt.src_port)
          dst_port_h == bpf_ntohs(pkt.dst_port)
      IN  IF \E idx \in 0..(count - 1) :
                 sig_matches(SigAt(idx), ctx, pkt, src_port_h, dst_port_h)
          THEN Ret(VERDICT_DROP,
                   emit_event(Bump(st, "acl_dropped"), pkt,
                              ATTACK_NONE, 1, DROP_FINGERPRINT))
          ELSE Ret(VERDICT_PASS, st)

(* --------- Stage 7: payload rules (modules/payload_match.h) ------- *)
ZeroRule ==
    [ pattern |-> <<>>, mask |-> <<>>, pattern_len |-> 0, offset |-> 0,
      protocol |-> 0, action |-> 0, dst_port |-> 0 ]

RuleAt(idx) == IF Has(payload_rule_map, idx) THEN payload_rule_map[idx] ELSE ZeroRule

HitAdd(st, idx) ==
    [st EXCEPT !.payload_hits =
        Put(@, idx, (IF Has(@, idx) THEN @[idx] ELSE 0) + 1)]

payload_handle_action(rule, idx, pkt, st) ==
    CASE rule.action = 0 ->
           Ret(VERDICT_DROP,
               emit_event(stats_drop(Bump(HitAdd(st, idx), "payload_match_dropped"),
                                     pkt.pkt_len),
                          pkt, ATTACK_PAYLOAD_MATCH, 1, DROP_PAYLOAD_MATCH))
      [] rule.action = 1 ->
           Ret(VERDICT_PASS,
               AdaptiveOverride(HitAdd(st, idx), pkt,
                   CASE pkt.ip_proto = IPPROTO_TCP -> get_config(CFG_SYN_RATE_PPS)
                     [] pkt.ip_proto = IPPROTO_UDP -> get_config(CFG_UDP_RATE_PPS)
                     [] OTHER -> get_config(CFG_GLOBAL_PPS_LIMIT),
                   PAYLOAD_RATE_LIMIT_DIVISOR))
      [] rule.action = 2 ->
           Ret(VERDICT_PASS,
               emit_event(HitAdd(st, idx), pkt, ATTACK_PAYLOAD_MATCH, 0, 0))
      [] OTHER -> Ret(VERDICT_PASS, st)

(* the frame byte at offset off, for offsets inside the L4 payload *)
FrameByte(ctx, pkt, off) ==
    LET k == off - pkt.payload_offset + 1
    IN  IF k >= 1 /\ k <= Len(ctx.payload) THEN ctx.payload[k] ELSE 0

(* whether rule idx matches the packet (check_payload_rule returning >= 0) *)
PayloadRuleMatches(ctx, pkt, idx) ==
    LET rule == RuleAt(idx)
        pat_len == rule.pattern_len
        total_offset == pkt.payload_offset + rule.offset
    IN  /\ ~(rule.protocol # 0 /\ rule.protocol # pkt.ip_proto)
        /\ ~(rule.dst_port # 0 /\ rule.dst_port # pkt.dst_port)
        /\ ~(pat_len = 0 \/ pat_len > PAYLOAD_PATTERN_MAX_LEN)
        /\ pkt.payload_offset # 0
        /\ total_offset <= MAX_OFFSET
        /\ total_offset + pat_len <= ctx.len
        /\ rule.offset + pat_len <= pkt.l4_payload_len
        /\ \A n \in 0..(pat_len - 1) :
              And16(FrameByte(ctx, pkt, total_offset + n), rule.mask[n + 1])
              = And16(rule.pattern[n + 1], rule.mask[n + 1])

payload_match_check(ctx, pkt, st) ==
    IF get_config(CFG_PAYLOAD_MATCH_EN) = 0 THEN Ret(VERDICT_PASS, st)
    ELSE IF pkt.payload_offset = 0 \/ pkt.l4_payload_len = 0
         THEN Ret(VERDICT_PASS, st)
    ELSE IF payload_rule_cnt = 0 THEN Ret(VERDICT_PASS, st)
    ELSE
      LET rule_count == IF payload_rule_cnt > PAYLOAD_MAX_CHECK
                        THEN PAYLOAD_MAX_CHECK ELSE payload_rule_cnt
          M == {idx \in 0..(rule_count - 1) : PayloadRuleMatches(ctx, pkt, idx)}
      IN  IF M = {} THEN Ret(VERDICT_PASS, st)
          ELSE LET idx == CHOOSE i \in M : \A j \in M : i <= j
               IN  payload_handle_action(RuleAt(idx), idx, pkt, st)

(* ------ Stage 8: protocol validation (modules/proto_validator.h) -- *)
CtKey(src_ip, dst_ip, src_port, dst_port, protocol) ==
    [ src_ip |-> src_ip, dst_ip |-> dst_ip, src_port |-> src_port,
      dst_port |-> dst_port, protocol |-> protocol ]

FwdKey(pkt, protocol) ==
    CtKey(pkt.src_ip, pkt.dst_ip, pkt.src_port, pkt.dst_port, protocol)

RevKey(pkt, protocol) ==
    CtKey(pkt.dst_ip, pkt.src_ip, pkt.dst_port, pkt.src_port, protocol)

SynAck(flags) ==
    (IF HasBit(flags, TCP_FLAG_SYN) THEN TCP_FLAG_SYN ELSE 0)
    + (IF HasBit(flags, TCP_FLAG_ACK) THEN TCP_FLAG_ACK ELSE 0)

TcpStateDrop(pkt, st) ==
    Ret(VERDICT_DROP,
        emit_event(stats_drop(Bump(Bump(st, "proto_violation_dropped"),
                                   "tcp_state_dropped"), pkt.pkt_len),
                   pkt, ATTACK_PROTO_VIOLATION, 1, DROP_TCP_STATE))

(* flags impossible for the tracked state (the switch of tcp_state_validate) *)
FlagViolation(state, flags) ==
    LET syn == HasBit(flags, TCP_FLAG_SYN)
        ack == HasBit(flags, TCP_FLAG_ACK)
        rst == HasBit(flags, TCP_FLAG_RST)
    IN  CASE state = CT_STATE_NEW         -> SynAck(flags) # TCP_FLAG_SYN
          [] state = CT_STATE_SYN_SENT    ->
               SynAck(flags) # TCP_FLAG_SYN + TCP_FLAG_ACK /\ ~rst
          [] state = CT_STATE_SYN_RECV    -> (~ack /\ ~rst) \/ (syn /\ ~ack)
          [] state = CT_STATE_ESTABLISHED -> syn /\ ~ack
          [] state = CT_STATE_FIN_WAIT    -> syn
          [] state \in {CT_STATE_CLOSED, CT_STATE_TIME_WAIT} -> ~rst
          [] OTHER -> FALSE

(* seq - expected (mod 2^32) strictly between 2^30 and 2^32 - 2^30 *)
SeqOutOfWindow(seq, expected) ==
    LET lo == (seq[1] - expected[1] + W16) % W16
        borrow == IF seq[1] < expected[1] THEN 1 ELSE 0
        hi == (seq[2] - expected[2] - borrow + 2 * W16) % W16
    IN  (hi > 16384 \/ (hi = 16384 /\ lo > 0)) /\ hi < 49152

tcp_state_validate(ctx, pkt, st, now_ns) ==
    IF get_config(CFG_TCP_STATE_ENABLE) = 0 THEN Ret(VERDICT_PASS, st)
    ELSE IF pkt.ip_proto # IPPROTO_TCP THEN Ret(VERDICT_PASS, st)
    ELSE IF pkt.l4_offset = 0 THEN Ret(VERDICT_PASS, st)
    ELSE IF pkt.l4_offset > MAX_OFFSET THEN Ret(VERDICT_PASS, st)
    ELSE IF ~bounds_check(pkt.l4_offset, TCPHDR_LEN, ctx.len) THEN Ret(VERDICT_PASS, st)
    ELSE
      LET flags == pkt.tcp_flags
          strict_mode == get_config(CFG_ESCALATION_LEVEL) >= ESCALATION_HIGH
          violation_limit == IF strict_mode THEN 1 ELSE TCP_VIOLATION_LIMIT
          key == FwdKey(pkt, IPPROTO_TCP)
      IN  IF ~Has(st.conntrack_map, key)
          THEN IF SynAck(flags) = TCP_FLAG_SYN THEN Ret(VERDICT_PASS, st)
               ELSE IF HasBit(flags, TCP_FLAG_RST) THEN Ret(VERDICT_PASS, st)
               ELSE TcpStateDrop(pkt, Bump(st, "tcp_state_violations"))
          ELSE
            LET ct == st.conntrack_map[key]
                violation ==
                    \/ FlagViolation(ct.state, flags)
                    \/ /\ ct.state >= CT_STATE_ESTABLISHED
                       /\ ct.seq_expected # U32Zero
                       /\ SeqOutOfWindow(pkt.tcp_seq, ct.seq_expected)
            IN  IF ~violation THEN Ret(VERDICT_PASS, st)
                ELSE
                  LET vc == (ct.violation_count + 1) % 256
                      st1 == Bump([st EXCEPT !.conntrack_map[key].violation_count = vc],
                                  "tcp_state_violations")
                  IN  IF vc > violation_limit THEN TcpStateDrop(pkt, st1)
                      ELSE Ret(VERDICT_PASS, st1)

PROTO_PORT_DNS       == 53
PROTO_PORT_NTP       == 123
PROTO_PORT_SSDP      == 1900
PROTO_PORT_MEMCACHED == 11211
DNS_MAX_PKT_NON_EDNS  == 512
DNS_AMP_ANCOUNT_LIMIT == 10
DNS_HDR_LEN == 12
NTP_HDR_LEN == 16
NTP_MIN_LEN == 48
NTP_MODE_CLIENT  == 3
NTP_MODE_SERVER  == 4
NTP_MODE_CONTROL == 6
NTP_MODE_PRIVATE == 7

ProtoDrop(pkt, st, names, attack, reason) ==
    LET RECURSIVE BumpAll(_, _)
        BumpAll(s, ns) == IF ns = <<>> THEN s
                          ELSE BumpAll(Bump(s, Head(ns)), Tail(ns))
    IN  Ret(VERDICT_DROP,
            emit_event(stats_drop(BumpAll(st, names), pkt.pkt_len),
                       pkt, attack, 1, reason))

(* 16-bit big-endian field at payload bytes k, k+1 (1-based) *)
PayloadBE16(ctx, k) == ctx.payload[k] * 256 + ctx.payload[k + 1]

dns_validate(ctx, pkt, st, dns_mode) ==
    IF pkt.payload_offset = 0 \/ pkt.payload_offset > MAX_OFFSET
       \/ pkt.payload_offset > ctx.len
       \/ ~bounds_check(pkt.payload_offset, DNS_HDR_LEN, ctx.len)
       \/ Len(ctx.payload) < DNS_HDR_LEN
    THEN Ret(VERDICT_PASS, st)
    ELSE
      LET flags == PayloadBE16(ctx, 3)
          qdcount == PayloadBE16(ctx, 5)
          ancount == PayloadBE16(ctx, 7)
          is_response == HasBit(flags, 32768)
          opcode == (flags \div 2048) % 16
          blocked == <<"dns_queries_blocked", "proto_violation_dropped">>
      IN  IF is_response /\ ancount > DNS_AMP_ANCOUNT_LIMIT
          THEN ProtoDrop(pkt, st, blocked, ATTACK_DNS_AMP, DROP_DNS_AMP)
          ELSE IF dns_mode >= 2 /\ ~is_response
                  /\ (qdcount # 1 \/ opcode # 0
                      \/ pkt.l4_payload_len > DNS_MAX_PKT_NON_EDNS)
          THEN ProtoDrop(pkt, st, blocked, ATTACK_PROTO_VIOLATION, DROP_PROTO_INVALID)
          ELSE Ret(VERDICT_PASS, Bump(st, "dns_queries_validated"))

ntp_validate(ctx, pkt, st) ==
    IF pkt.payload_offset = 0 \/ pkt.payload_offset > MAX_OFFSET
       \/ pkt.payload_offset > ctx.len
       \/ ~bounds_check(pkt.payload_offset, NTP_HDR_LEN, ctx.len)
       \/ Len(ctx.payload) < NTP_HDR_LEN
    THEN Ret(VERDICT_PASS, st)
    ELSE
      LET mode == ctx.payload[1] % 8
          est(key) == Has(st.conntrack_map, key)
                      /\ st.conntrack_map[key].state >= CT_STATE_ESTABLISHED
          blocked == <<"ntp_monlist_blocked", "proto_violation_dropped">>
      IN  IF mode = NTP_MODE_PRIVATE
          THEN ProtoDrop(pkt, st, blocked, ATTACK_NTP_AMP, DROP_NTP_AMP)
          ELSE IF mode = NTP_MODE_CONTROL /\ ~est(FwdKey(pkt, IPPROTO_UDP))
                  /\ ~est(RevKey(pkt, IPPROTO_UDP))
          THEN ProtoDrop(pkt, st, blocked, ATTACK_NTP_AMP, DROP_NTP_AMP)
          ELSE IF mode \in {NTP_MODE_CLIENT, NTP_MODE_SERVER}
                  /\ pkt.l4_payload_len < NTP_MIN_LEN
          THEN ProtoDrop(pkt, st, <<"proto_violation_dropped">>,
                         ATTACK_PROTO_VIOLATION, DROP_PROTO_INVALID)
          ELSE Ret(VERDICT_PASS, st)

ssdp_validate(ctx, pkt, st) ==
    IF pkt.payload_offset = 0 \/ pkt.payload_offset > MAX_OFFSET
       \/ pkt.payload_offset > ctx.len
       \/ ~bounds_check(pkt.payload_offset, 8, ctx.len)
       \/ Len(ctx.payload) < 8
    THEN Ret(VERDICT_PASS, st)
    ELSE
      LET p == ctx.payload
          is_http == SubSeq(p, 1, 8) = <<72, 84, 84, 80, 47, 49, 46, 49>>
          is_notify == SubSeq(p, 1, 6) = <<78, 79, 84, 73, 70, 89>>
      IN  IF is_http \/ is_notify
          THEN ProtoDrop(pkt, st, <<"ssdp_amp_dropped", "proto_violation_dropped">>,
                         ATTACK_SSDP_AMP, DROP_SSDP_AMP)
          ELSE Ret(VERDICT_PASS, st)

memcached_validate(pkt, st) ==
    ProtoDrop(pkt, st, <<"memcached_amp_dropped", "proto_violation_dropped">>,
              ATTACK_MEMCACHED_AMP, DROP_MEMCACHED_AMP)

(* a lookup that finds every port registered for DNS *)
ProtoFlags_all(port) == 1

(* port_proto_map lookup: 0 when the port is not registered *)
ProtoFlags(port) == IF Has(port_proto_map, port) THEN port_proto_map[port] ELSE 0

UdpValidate(ctx, pkt, st) ==
    LET dst_port == bpf_ntohs(pkt.dst_port)
        dns_mode == get_config(CFG_DNS_VALID_MODE)
        pf == ProtoFlags(pkt.dst_port)
    IN  IF pkt.payload_offset = 0 \/ pkt.payload_offset > MAX_OFFSET
           \/ pkt.payload_offset > ctx.len
        THEN Ret(VERDICT_PASS, st)
        ELSE IF dst_port = PROTO_PORT_DNS /\ dns_mode > 0
             THEN dns_validate(ctx, pkt, st, dns_mode)
        ELSE IF dst_port = PROTO_PORT_NTP THEN ntp_validate(ctx, pkt, st)
        ELSE IF dst_port = PROTO_PORT_SSDP THEN ssdp_validate(ctx, pkt, st)
        ELSE IF dst_port = PROTO_PORT_MEMCACHED THEN memcached_validate(pkt, st)
        ELSE IF HasBit(pf, 1) /\ dns_mode > 0 THEN dns_validate(ctx, pkt, st, dns_mode)
        ELSE IF HasBit(pf, 2) THEN ntp_validate(ctx, pkt, st)
        ELSE IF HasBit(pf, 4) THEN ssdp_validate(ctx, pkt, st)
        ELSE IF HasBit(pf, 8) THEN memcached_validate(pkt, st)
        ELSE Ret(VERDICT_PASS, st)

proto_validate(ctx, pkt, st, now_ns) ==
    IF get_config(CFG_PROTO_VALID_ENABLE) = 0 THEN Ret(VERDICT_PASS, st)
    ELSE IF pkt.ip_proto = IPPROTO_TCP
         THEN tcp_state_validate(ctx, pkt, st, now_ns)
    ELSE IF pkt.ip_proto = IPPROTO_UDP THEN UdpValidate(ctx, pkt, st)
    ELSE Ret(VERDICT_PASS, st)

(* --------------- token bucket (common/helpers.h) ------------------ *)
(* token_bucket_consume that refuses a request for exactly the tokens held *)
token_bucket_consume_strict(rl, now_ns, tokens_needed) ==
    IF rl.rate_pps = 0 THEN [ok |-> TRUE, rl |-> rl]
    ELSE
      LET new_tokens == ((now_ns - rl.last_refill_ns) * rl.rate_pps) \div NSEC_PER_SEC
          rl1 == IF new_tokens > 0
                 THEN [rl EXCEPT !.tokens = min_u64(@ + new_tokens, rl.burst_size),
                                 !.last_refill_ns = now_ns]
                 ELSE rl
          rl2 == [rl1 EXCEPT !.total_packets = @ + 1]
      IN  IF rl2.tokens > tokens_needed
          THEN [ok |-> TRUE, rl |-> [rl2 EXCEPT !.tokens = @ - tokens_needed]]
          ELSE [ok |-> FALSE, rl |-> [rl2 EXCEPT !.dropped_packets = @ + 1]]

(* token_bucket_consume that leaves last_refill_ns alone after a refill *)
token_bucket_consume_no_stamp(rl, now_ns, tokens_needed) ==
    IF rl.rate_pps = 0 THEN [ok |-> TRUE, rl |-> rl]
    ELSE
      LET new_tokens == ((now_ns - rl.last_refill_ns) * rl.rate_pps) \div NSEC_PER_SEC
          rl1 == IF new_tokens > 0
                 THEN [rl EXCEPT !.tokens = min_u64(@ + new_tokens, rl.burst_size)]
                 ELSE rl
          rl2 == [rl1 EXCEPT !.total_packets = @ + 1]
      IN  IF rl2.tokens >= tokens_needed
          THEN [ok |-> TRUE, rl |-> [rl2 EXCEPT !.tokens = @ - tokens_needed]]
          ELSE [ok |-> FALSE, rl |-> [rl2 EXCEPT !.dropped_packets = @ + 1]]

(* token_bucket_consume: [ok, rl]; ok is the C return value as a Boolean *)
token_bucket_consume(rl, now_ns, tokens_needed) ==
    IF rl.rate_pps = 0 THEN [ok |-> TRUE, rl |-> rl]
    ELSE
      LET elapsed_ns == now_ns - rl.last_refill_ns
          new_tokens == (elapsed_ns * rl.rate_pps) \div NSEC_PER_SEC
          rl1 == IF new_tokens > 0
                 THEN [rl EXCEPT !.tokens = min_u64(@ + new_tokens, rl.burst_size),
                                 !.last_refill_ns = now_ns]
                 ELSE rl
          rl2 == [rl1 EXCEPT !.total_packets = @ + 1]
      IN  IF rl2.tokens >= tokens_needed
          THEN [ok |-> TRUE, rl |-> [rl2 EXCEPT !.tokens = @ - tokens_needed]]
          ELSE [ok |-> FALSE, rl |-> [rl2 EXCEPT !.dropped_packets = @ + 1]]

(* --------------- Stage 9: SYN cookies (modules/syn_flood.h) ------- *)
mss_to_index(mss) ==
    IF mss >= 1460 THEN 3 ELSE IF mss >= 1220 THEN 2 ELSE IF mss >= 536 THEN 1 ELSE 0

(* (__u64)seed | ((__u64)seed << 32) *)
SeedKey(seed) == <<seed[1], seed[2], seed[1], seed[2]>>

SipKey1 == <<52719, 35243, 17767, 291>>      \* 0x0123456789abcdef

(* the __u32 cookie as limbs: ((__u32)(hash >> 2) << 2) | (mss_idx & 3) *)
syn_cookie_generate(pkt, seed, mss_idx) ==
    LET hash == siphash_2_4(SeedKey(seed), SipKey1,
                            LoadU32(pkt.src_ip), LoadU32(pkt.dst_ip),
                            bpf_ntohs(pkt.src_port), bpf_ntohs(pkt.dst_port))
    IN  <<(hash[1] \div 4) * 4 + (mss_idx % 4), hash[2]>>

(* syn_cookie_validate that accepts every acknowledgement number *)
syn_cookie_validate_any(pkt, ack_seq) == TRUE

(* syn_cookie_validate with the check against seed_previous left out *)
syn_cookie_validate_current_only(pkt, ack_seq) ==
    LET cookie == U32Dec(ack_seq)
    IN  cookie = syn_cookie_generate(pkt, syn_cookie_map.seed_current, cookie[1] % 4)

syn_cookie_validate(pkt, ack_seq) ==
    LET sc == syn_cookie_map
        cookie == U32Dec(ack_seq)
        mss_idx == cookie[1] % 4
    IN  \/ cookie = syn_cookie_generate(pkt, sc.seed_current, mss_idx)
        \/ cookie = syn_cookie_generate(pkt, sc.seed_previous, mss_idx)

(* the SYN-ACK the SYN branch writes over the frame before XDP_TX       *)
(* (syn_flood.h:177-252): the addresses and ports change places, syn    *)
(* and ack are set and fin, rst, psh and urg cleared, which leaves ece  *)
(* and cwr as they came; the IPv4 checksum is summed over the 20 bytes  *)
(* at data + sizeof(struct ethhdr) and stored 10 bytes into them        *)
SynAckReply(ctx, cookie) ==
    [ saddr |-> ctx.daddr, daddr |-> ctx.saddr,
      source |-> ctx.dest, dest |-> ctx.source,
      seq |-> cookie, ack_seq |-> U32Inc(ctx.seq),
      flags |-> (ctx.flags \div TCP_FLAG_ECE) * TCP_FLAG_ECE
                + TCP_FLAG_SYN + TCP_FLAG_ACK,
      ttl |-> 64, id |-> 0, window |-> 65535, check |-> 0,
      ip_check_over |-> ETH_HLEN, ip_check_at |-> ETH_HLEN + 10 ]

NewCt(now_ns, pkt_len, state, flags) ==
    [ last_seen_ns |-> now_ns, packets_fwd |-> 1, packets_rev |-> 0,
      bytes_fwd |-> pkt_len, bytes_rev |-> 0, state |-> state,
      flags |-> flags, violation_count |-> 0, seq_expected |-> U32Zero ]

syn_flood_check(ctx, pkt, st, now_ns) ==
    IF pkt.ip_proto # IPPROTO_TCP \/ pkt.l4_hdr = 0 THEN Ret(VERDICT_PASS, st)
    ELSE IF get_config(CFG_SYN_COOKIE_ENABLE) = 0 THEN Ret(VERDICT_PASS, st)
    ELSE IF SynAck(pkt.tcp_flags) = TCP_FLAG_SYN
    THEN
      LET cookie == syn_cookie_generate(pkt, syn_cookie_map.seed_current,
                                        mss_to_index(1460))
          l4_off == pkt.l4_offset
          v == SkipVlan(ctx)
      IN  IF ~bounds_check(0, ETH_HLEN, ctx.len) THEN Ret(VERDICT_PASS, st)
          ELSE IF l4_off < ETH_HLEN \/ l4_off > MAX_OFFSET THEN Ret(VERDICT_PASS, st)
          ELSE IF ~v.ok \/ ~bounds_check(v.l3, IPHDR_LEN, ctx.len)
               THEN Ret(VERDICT_PASS, st)
          ELSE IF ~bounds_check(l4_off, TCPHDR_LEN, ctx.len) THEN Ret(VERDICT_PASS, st)
          ELSE Ret(VERDICT_TX,
                   [Bump(st, "syn_cookies_sent") EXCEPT
                        !.reply = <<SynAckReply(ctx, cookie)>>])
    ELSE IF SynAck(pkt.tcp_flags) = TCP_FLAG_ACK
    THEN
      LET key == FwdKey(pkt, IPPROTO_TCP)
          tracked == Has(st.conntrack_map, key)
      IN  IF tracked /\ st.conntrack_map[key].state >= CT_STATE_ESTABLISHED
          THEN Ret(VERDICT_PASS, st)
          ELSE IF syn_cookie_validate(pkt, pkt.tcp_ack_seq)
          THEN Ret(VERDICT_PASS,
                   Bump([st EXCEPT !.conntrack_map =
                            Put(@, key, NewCt(now_ns, pkt.pkt_len,
                                              CT_STATE_ESTABLISHED,
                                              CT_FLAG_SYN_COOKIE_VERIFIED))],
                        "syn_cookies_validated"))
          ELSE IF ~tracked
          THEN Ret(VERDICT_DROP,
                   emit_event(Bump(st, "syn_cookies_failed"), pkt,
                              ATTACK_SYN_FLOOD, 1, DROP_SYN_FLOOD))
          ELSE Ret(VERDICT_PASS, st)
    ELSE Ret(VERDICT_PASS, st)

(* --------------- Stage 10: ACK flood (modules/ack_flood.h) -------- *)
CtTouchFwd(ct, pkt, now_ns) ==
    [ct EXCEPT !.last_seen_ns = now_ns, !.packets_fwd = @ + 1,
               !.bytes_fwd = @ + pkt.pkt_len]

CtTouchRev(ct, pkt, now_ns) ==
    [ct EXCEPT !.last_seen_ns = now_ns, !.packets_rev = @ + 1,
               !.bytes_rev = @ + pkt.pkt_len]

(* ack_flood_check without the lookup in the reverse direction *)
ack_flood_check_forward_only(pkt, st, now_ns) ==
    IF pkt.ip_proto # IPPROTO_TCP THEN Ret(VERDICT_PASS, st)
    ELSE IF pkt.tcp_flags # TCP_FLAG_ACK THEN Ret(VERDICT_PASS, st)
    ELSE IF get_config(CFG_CONNTRACK_ENABLE) = 0 THEN Ret(VERDICT_PASS, st)
    ELSE
      LET fwd == FwdKey(pkt, IPPROTO_TCP)
      IN  IF Has(st.conntrack_map, fwd)
          THEN Ret(VERDICT_PASS,
                   [st EXCEPT !.conntrack_map[fwd] = CtTouchFwd(@, pkt, now_ns)])
          ELSE Ret(VERDICT_DROP,
                   emit_event(Bump(st, "ack_flood_dropped"), pkt,
                              ATTACK_ACK_FLOOD, 1, DROP_ACK_INVALID))

ack_flood_check(pkt, st, now_ns) ==
    IF pkt.ip_proto # IPPROTO_TCP THEN Ret(VERDICT_PASS, st)
    ELSE IF pkt.tcp_flags # TCP_FLAG_ACK THEN Ret(VERDICT_PASS, st)
    ELSE IF get_config(CFG_CONNTRACK_ENABLE) = 0 THEN Ret(VERDICT_PASS, st)
    ELSE
      LET fwd == FwdKey(pkt, IPPROTO_TCP)
          rev == RevKey(pkt, IPPROTO_TCP)
      IN  IF Has(st.conntrack_map, fwd)
          THEN Ret(VERDICT_PASS,
                   [st EXCEPT !.conntrack_map[fwd] = CtTouchFwd(@, pkt, now_ns)])
          ELSE IF Has(st.conntrack_map, rev)
          THEN Ret(VERDICT_PASS,
                   [st EXCEPT !.conntrack_map[rev] = CtTouchRev(@, pkt, now_ns)])
          ELSE Ret(VERDICT_DROP,
                   emit_event(Bump(st, "ack_flood_dropped"), pkt,
                              ATTACK_ACK_FLOOD, 1, DROP_ACK_INVALID))

(* --------------- Stage 11: UDP flood (modules/udp_flood.h) -------- *)
PORT_DNS       == 53
PORT_NTP       == 123
PORT_SSDP      == 1900
PORT_MEMCACHED == 11211
PORT_CHARGEN   == 19
PORT_CLDAP     == 389
PORT_SNMP      == 161
DNS_AMP_THRESHOLD       == 512
NTP_AMP_THRESHOLD       == 468
SSDP_AMP_THRESHOLD      == 256
MEMCACHED_AMP_THRESHOLD == 1400

UdpDrop(pkt, st, name, attack, reason) ==
    Ret(VERDICT_DROP, emit_event(Bump(st, name), pkt, attack, 1, reason))

(* udp_flood_check with every size test inclusive of its threshold *)
udp_flood_check_inclusive(pkt, st, now_ns) ==
    LET src_port == bpf_ntohs(pkt.src_port)
        limit == CASE src_port = PORT_DNS -> DNS_AMP_THRESHOLD
                   [] src_port = PORT_NTP -> NTP_AMP_THRESHOLD
                   [] src_port = PORT_SSDP -> SSDP_AMP_THRESHOLD
                   [] src_port = PORT_MEMCACHED -> MEMCACHED_AMP_THRESHOLD
                   [] src_port \in {PORT_CHARGEN, PORT_CLDAP, PORT_SNMP} -> 256
                   [] OTHER -> W16
    IN  IF pkt.ip_proto = IPPROTO_UDP /\ pkt.l4_payload_len >= limit
        THEN UdpDrop(pkt, st, "udp_flood_dropped", ATTACK_UDP_FLOOD, DROP_UDP_FLOOD)
        ELSE Ret(VERDICT_PASS, st)

udp_flood_check(pkt, st, now_ns) ==
    IF pkt.ip_proto # IPPROTO_UDP THEN Ret(VERDICT_PASS, st)
    ELSE
      LET src_port == bpf_ntohs(pkt.src_port)
          payload_len == pkt.l4_payload_len
      IN  IF src_port = PORT_DNS /\ payload_len > DNS_AMP_THRESHOLD
          THEN UdpDrop(pkt, st, "dns_amp_dropped", ATTACK_DNS_AMP, DROP_DNS_AMP)
          ELSE IF src_port = PORT_NTP /\ payload_len > NTP_AMP_THRESHOLD
          THEN UdpDrop(pkt, st, "ntp_amp_dropped", ATTACK_NTP_AMP, DROP_NTP_AMP)
          ELSE IF src_port = PORT_SSDP /\ payload_len > SSDP_AMP_THRESHOLD
          THEN UdpDrop(pkt, st, "udp_flood_dropped", ATTACK_SSDP_AMP, DROP_UDP_FLOOD)
          ELSE IF src_port = PORT_MEMCACHED /\ payload_len > MEMCACHED_AMP_THRESHOLD
          THEN UdpDrop(pkt, st, "udp_flood_dropped", ATTACK_MEMCACHED_AMP, DROP_UDP_FLOOD)
          ELSE IF src_port \in {PORT_CHARGEN, PORT_CLDAP, PORT_SNMP} /\ payload_len > 256
          THEN UdpDrop(pkt, st, "udp_flood_dropped", ATTACK_UDP_FLOOD, DROP_UDP_FLOOD)
          ELSE IF ProtoFlags(pkt.src_port) # 0 /\ payload_len > 512
          THEN UdpDrop(pkt, st, "udp_flood_dropped", ATTACK_UDP_FLOOD, DROP_UDP_FLOOD)
          ELSE Ret(VERDICT_PASS, st)

(* --------------- Stage 12: ICMP flood (modules/icmp_flood.h) ------ *)
ICMP_ECHO_REPLY       == 0
ICMP_DEST_UNREACHABLE == 3
ICMP_ECHO_REQUEST     == 8
ICMP_TIME_EXCEEDED    == 11

icmp_flood_check(ctx, pkt, st) ==
    IF pkt.ip_proto # IPPROTO_ICMP THEN Ret(VERDICT_PASS, st)
    ELSE IF pkt.l4_offset = 0 THEN Ret(VERDICT_PASS, st)
    ELSE IF pkt.l4_offset > MAX_OFFSET THEN Ret(VERDICT_PASS, st)
    ELSE IF ~bounds_check(pkt.l4_offset, ICMPHDR_LEN, ctx.len) THEN Ret(VERDICT_PASS, st)
    ELSE IF pkt.l4_payload_len + ICMPHDR_LEN > ICMP_MAX_SIZE
    THEN UdpDrop(pkt, st, "icmp_flood_dropped", ATTACK_ICMP_FLOOD, DROP_ICMP_FLOOD)
    ELSE IF ctx.icmp_type \notin {ICMP_ECHO_REPLY, ICMP_DEST_UNREACHABLE,
                                  ICMP_ECHO_REQUEST, ICMP_TIME_EXCEEDED}
    THEN UdpDrop(pkt, st, "icmp_flood_dropped", ATTACK_ICMP_FLOOD, DROP_ICMP_FLOOD)
    ELSE Ret(VERDICT_PASS, st)

(* ------------ Stage 13: per-source rate (modules/rate_limiter.h) -- *)
NewRl(rate_pps, now_ns) ==
    [ tokens |-> rate_pps, last_refill_ns |-> now_ns, rate_pps |-> rate_pps,
      burst_size |-> rate_pps * 2, total_packets |-> 0, dropped_packets |-> 0 ]

rate_limit_check(pkt, st, now_ns) ==
    IF pkt.ip_proto \notin {IPPROTO_TCP, IPPROTO_UDP, IPPROTO_ICMP}
    THEN Ret(VERDICT_PASS, st)
    ELSE
      LET rate_pps == BaseRate(pkt)
      IN  IF rate_pps = 0 THEN Ret(VERDICT_PASS, st)
          ELSE IF ~Has(st.rate_limit_map, pkt.src_ip)
          THEN Ret(VERDICT_PASS,
                   [st EXCEPT !.rate_limit_map =
                        Put(@, pkt.src_ip, NewRl(rate_pps, now_ns))])
          ELSE
            LET rl == [st.rate_limit_map[pkt.src_ip] EXCEPT
                          !.rate_pps = rate_pps, !.burst_size = rate_pps * 2]
                r == token_bucket_consume(rl, now_ns, 1)
                st1 == [st EXCEPT !.rate_limit_map[pkt.src_ip] = r.rl]
            IN  IF r.ok THEN Ret(VERDICT_PASS, st1)
                ELSE Ret(VERDICT_DROP,
                         emit_event(Bump(st1, "rate_limited"), pkt,
                                    ATTACK_NONE, 1, DROP_RATE_LIMIT))

(* ------------ Stage 14: global rate (modules/rate_limiter.h) ------ *)
ZeroRl ==
    [ tokens |-> 0, last_refill_ns |-> 0, rate_pps |-> 0,
      burst_size |-> 0, total_packets |-> 0, dropped_packets |-> 0 ]

(* one of the two global buckets: [ok, st] *)
GlobalBucket(st, key, rate, needed, now_ns) ==
    LET rl == [st.global_rate_map[key] EXCEPT
                  !.rate_pps = rate, !.burst_size = rate * 2]
        r == token_bucket_consume(rl, now_ns, needed)
    IN  [ok |-> r.ok, st |-> [st EXCEPT !.global_rate_map[key] = r.rl]]

global_rate_check(pkt, st, now_ns) ==
    LET pps_limit == get_config(CFG_GLOBAL_PPS_LIMIT)
        bps_limit == get_config(CFG_GLOBAL_BPS_LIMIT)
        p == IF pps_limit > 0 THEN GlobalBucket(st, 0, pps_limit, 1, now_ns)
             ELSE [ok |-> TRUE, st |-> st]
        b == IF bps_limit > 0
             THEN GlobalBucket(p.st, 1, bps_limit \div 8, pkt.pkt_len, now_ns)
             ELSE [ok |-> TRUE, st |-> p.st]
    IN  IF pps_limit = 0 /\ bps_limit = 0 THEN Ret(VERDICT_PASS, st)
        ELSE IF ~p.ok THEN Ret(VERDICT_DROP, Bump(p.st, "rate_limited"))
        ELSE IF ~b.ok THEN Ret(VERDICT_DROP, Bump(b.st, "rate_limited"))
        ELSE Ret(VERDICT_PASS, b.st)

(* ------------ Stage 15: conntrack (modules/conntrack.h) ----------- *)
(* conntrack_tcp_state_update with a closed entry taken up again by a SYN *)
conntrack_tcp_state_update_reopen(state, tcp_flags, is_fwd) ==
    IF state = CT_STATE_CLOSED /\ HasBit(tcp_flags, TCP_FLAG_SYN)
    THEN CT_STATE_SYN_SENT
    ELSE
    LET syn == HasBit(tcp_flags, TCP_FLAG_SYN)
        ack == HasBit(tcp_flags, TCP_FLAG_ACK)
        fin == HasBit(tcp_flags, TCP_FLAG_FIN)
        rst == HasBit(tcp_flags, TCP_FLAG_RST)
    IN  CASE state = CT_STATE_NEW ->
               IF syn THEN CT_STATE_SYN_SENT ELSE state
          [] state = CT_STATE_SYN_SENT ->
               IF syn /\ ack /\ ~is_fwd THEN CT_STATE_SYN_RECV ELSE state
          [] state = CT_STATE_SYN_RECV ->
               IF ack /\ is_fwd THEN CT_STATE_ESTABLISHED ELSE state
          [] state = CT_STATE_ESTABLISHED ->
               IF rst THEN CT_STATE_CLOSED
               ELSE IF fin THEN CT_STATE_FIN_WAIT ELSE state
          [] state = CT_STATE_FIN_WAIT ->
               IF rst \/ (fin /\ ~is_fwd) THEN CT_STATE_CLOSED ELSE state
          [] OTHER -> state

(* the state conntrack_tcp_state_update leaves in ct->state *)
conntrack_tcp_state_update(state, tcp_flags, is_fwd) ==
    LET syn == HasBit(tcp_flags, TCP_FLAG_SYN)
        ack == HasBit(tcp_flags, TCP_FLAG_ACK)
        fin == HasBit(tcp_flags, TCP_FLAG_FIN)
        rst == HasBit(tcp_flags, TCP_FLAG_RST)
    IN  CASE state = CT_STATE_NEW ->
               IF syn THEN CT_STATE_SYN_SENT ELSE state
          [] state = CT_STATE_SYN_SENT ->
               IF syn /\ ack /\ ~is_fwd THEN CT_STATE_SYN_RECV ELSE state
          [] state = CT_STATE_SYN_RECV ->
               IF ack /\ is_fwd THEN CT_STATE_ESTABLISHED ELSE state
          [] state = CT_STATE_ESTABLISHED ->
               IF rst THEN CT_STATE_CLOSED
               ELSE IF fin THEN CT_STATE_FIN_WAIT ELSE state
          [] state = CT_STATE_FIN_WAIT ->
               IF rst \/ (fin /\ ~is_fwd) THEN CT_STATE_CLOSED ELSE state
          [] OTHER -> state

conntrack_update(pkt, st, now_ns) ==
    IF get_config(CFG_CONNTRACK_ENABLE) = 0 THEN Ret(VERDICT_PASS, st)
    ELSE
      LET fwd == FwdKey(pkt, pkt.ip_proto)
          rev == RevKey(pkt, pkt.ip_proto)
          tcp == pkt.ip_proto = IPPROTO_TCP
      IN  IF Has(st.conntrack_map, fwd)
          THEN LET ct == CtTouchFwd(st.conntrack_map[fwd], pkt, now_ns)
                   ct1 == IF tcp
                          THEN [ct EXCEPT !.state =
                                   conntrack_tcp_state_update(@, pkt.tcp_flags, TRUE)]
                          ELSE ct
               IN  Ret(VERDICT_PASS, [st EXCEPT !.conntrack_map[fwd] = ct1])
          ELSE IF Has(st.conntrack_map, rev)
          THEN LET ct == CtTouchRev(st.conntrack_map[rev], pkt, now_ns)
                   ct1 == IF tcp
                          THEN [ct EXCEPT !.state =
                                   conntrack_tcp_state_update(@, pkt.tcp_flags, FALSE)]
                          ELSE ct
                   promote == ~tcp /\ ct1.state = CT_STATE_NEW
                   ct2 == IF promote
                          THEN [ct1 EXCEPT !.state = CT_STATE_ESTABLISHED]
                          ELSE ct1
                   st1 == [st EXCEPT !.conntrack_map[rev] = ct2]
               IN  Ret(VERDICT_PASS,
                       IF promote THEN Bump(st1, "conntrack_established") ELSE st1)
          ELSE Ret(VERDICT_PASS,
                   Bump([st EXCEPT !.conntrack_map =
                            Put(@, fwd, NewCt(now_ns, pkt.pkt_len, CT_STATE_NEW, 0))],
                        "conntrack_new"))

(* ---------------------------------------------------------------- *)
(* The XDP program (xdp_main.c).  One packet is one atomic step: BPF  *)
(* runs the program to completion on the CPU that received the frame. *)
(* ---------------------------------------------------------------- *)
StageOrder ==
    << "acl", "threat_intel", "geoip", "reputation", "fragment", "fingerprint",
       "payload_match", "proto_validate", "syn_flood", "ack_flood", "udp_flood",
       "icmp_flood", "rate_limit", "global_rate", "conntrack" >>

(* the call xdp_main.c makes for each stage *)
RunStage(name, ctx, pkt, st, now_ns) ==
    CASE name = "acl"            -> acl_check(pkt, st)
      [] name = "threat_intel"   -> threat_intel_check(pkt, st)
      [] name = "geoip"          -> geoip_check(pkt, st)
      [] name = "reputation"     -> reputation_check(pkt, st, now_ns)
      [] name = "fragment"       -> fragment_check(ctx, pkt, st)
      [] name = "fingerprint"    -> fingerprint_check(ctx, pkt, st)
      [] name = "payload_match"  -> payload_match_check(ctx, pkt, st)
      [] name = "proto_validate" -> proto_validate(ctx, pkt, st, now_ns)
      [] name = "syn_flood"      -> syn_flood_check(ctx, pkt, st, now_ns)
      [] name = "ack_flood"      -> ack_flood_check(pkt, st, now_ns)
      [] name = "udp_flood"      -> udp_flood_check(pkt, st, now_ns)
      [] name = "icmp_flood"     -> icmp_flood_check(ctx, pkt, st)
      [] name = "rate_limit"     -> rate_limit_check(pkt, st, now_ns)
      [] name = "global_rate"    -> global_rate_check(pkt, st, now_ns)
      [] name = "conntrack"      -> conntrack_update(pkt, st, now_ns)

(* whether xdp_main.c returns right after the stage: every "if (verdict *)
(* == VERDICT_DROP) return XDP_DROP", and the VERDICT_TX test that only   *)
(* follows syn_flood_check; conntrack_update's result is not looked at   *)
(* EndsWalk with the test after the ACL stage left out *)
EndsWalk_skip_acl(name, verdict) ==
    \/ verdict = VERDICT_DROP /\ name \notin {"acl", "conntrack"}
    \/ verdict = VERDICT_TX /\ name = "syn_flood"

EndsWalk(name, verdict) ==
    \/ verdict = VERDICT_DROP /\ name # "conntrack"
    \/ verdict = VERDICT_TX /\ name = "syn_flood"

(* the stages after which xdp_main.c itself calls stats_drop *)
MainCountsDrop(name) == name \notin {"acl", "fragment", "fingerprint"}

(* what xdp_main.c returns when the verdict r of a stage ends the walk *)
AfterStage(name, r, w, pkt) ==
    IF r.verdict = VERDICT_TX
    THEN [action |-> XDP_TX, st |-> stats_tx(r.st, pkt.pkt_len), walk |-> w]
    ELSE [action |-> XDP_DROP,
          st |-> IF MainCountsDrop(name)
                 THEN stats_drop(r.st, pkt.pkt_len) ELSE r.st,
          walk |-> w]

RECURSIVE Walk(_, _, _, _, _, _)
Walk(i, ctx, pkt, st, now_ns, walk) ==
    IF i > Len(StageOrder)
    THEN [action |-> XDP_PASS, st |-> stats_tx(st, pkt.pkt_len), walk |-> walk]
    ELSE
      Then(RunStage(StageOrder[i], ctx, pkt, st, now_ns), LAMBDA r :
      Then(Append(walk, [stage |-> StageOrder[i], verdict |-> r.verdict]), LAMBDA w :
           IF EndsWalk(StageOrder[i], r.verdict)
           THEN AfterStage(StageOrder[i], r, w, pkt)
           ELSE Walk(i + 1, ctx, pkt, r.st, now_ns, w)))

(* xdp_ddos_scrubber: [action, st, walk, parsed, pkt] *)
xdp_ddos_scrubber(ctx, st, now_ns) ==
    IF get_config(CFG_ENABLED) = 0
    THEN [action |-> XDP_PASS, st |-> st, walk |-> <<>>,
          parsed |-> FALSE, pkt |-> EmptyPkt(ctx)]
    ELSE
      Then(parse_packet(ctx), LAMBDA p :
           IF p.rc < 0
           THEN [action |-> XDP_DROP,
                 st |-> emit_event(stats_drop(st, 0), p.pkt,
                                   ATTACK_NONE, 1, DROP_PARSE_ERROR),
                 walk |-> <<>>, parsed |-> FALSE, pkt |-> p.pkt]
           ELSE Then(Walk(1, ctx, p.pkt, stats_rx(st, p.pkt.pkt_len), now_ns, <<>>),
                     LAMBDA r :
                     [action |-> r.action, st |-> r.st, walk |-> r.walk,
                      parsed |-> TRUE, pkt |-> p.pkt]))

NoPacket == [seen |-> FALSE]

(* a frame of the set F arrives and the program runs on it *)
Receive(F, max_packets) ==
    /\ npkts < max_packets
    /\ \E ctx \in F :
         \E r \in {xdp_ddos_scrubber(ctx, DpState, now)} :
             /\ stats_map' = r.st.stats
             /\ events' = r.st.events
             /\ rate_limit_map' = r.st.rate_limit_map
             /\ global_rate_map' = r.st.global_rate_map
             /\ conntrack_map' = r.st.conntrack_map
             /\ reputation_map' = r.st.reputation_map
             /\ port_scan_map' = r.st.port_scan_map
             /\ adaptive_rate_map' = r.st.adaptive_rate_map
             /\ payload_hits' = r.st.payload_hits
             /\ ring_free' = r.st.ring_free
             /\ last' = [seen |-> TRUE, ctx |-> ctx, action |-> r.action,
                         walk |-> r.walk, parsed |-> r.parsed, pkt |-> r.pkt,
                         reply |-> r.st.reply, at |-> now]
    /\ npkts' = npkts + 1
    /\ UNCHANGED <<smp_vars, ctl_vars, now>>

(* bpf_ktime_get_ns advances between packets *)
Tick(D, max_time) ==
    /\ \E d \in D : now + d <= max_time /\ now' = now + d
    /\ UNCHANGED <<smp_vars, ctl_vars, dp_vars, last, npkts>>

(* ---------------------------------------------------------------- *)
(* Frames, as the test programs build them (tests/bpf/test_xdp.c).    *)
(* ---------------------------------------------------------------- *)
IpA   == <<10, 0, 0, 1>>
IpB   == <<10, 0, 0, 2>>
IpSrv == <<192, 168, 1, 1>>

BaseFrame(protocol, saddr, daddr, l4len, payload) ==
    [ len |-> ETH_HLEN + IPHDR_LEN + l4len + Len(payload),
      h_proto |-> <<ETH_P_IP>>, ihl |-> 5, protocol |-> protocol,
      saddr |-> saddr, daddr |-> daddr,
      tot_len |-> IPHDR_LEN + l4len + Len(payload), ttl |-> 64, frag_off |-> 0,
      source |-> 0, dest |-> 0, flags |-> 0, seq |-> U32Zero, ack_seq |-> U32Zero,
      doff |-> 5, icmp_type |-> 0, payload |-> payload ]

TcpFrame(saddr, daddr, source, dest, flags, seq, ack_seq) ==
    [BaseFrame(IPPROTO_TCP, saddr, daddr, TCPHDR_LEN, <<>>) EXCEPT
        !.source = source, !.dest = dest, !.flags = flags,
        !.seq = seq, !.ack_seq = ack_seq]

UdpFrame(saddr, daddr, source, dest, payload) ==
    [BaseFrame(IPPROTO_UDP, saddr, daddr, UDPHDR_LEN, payload) EXCEPT
        !.source = source, !.dest = dest]

IcmpFrame(saddr, daddr, icmp_type) ==
    [BaseFrame(IPPROTO_ICMP, saddr, daddr, ICMPHDR_LEN, <<>>) EXCEPT
        !.icmp_type = icmp_type]

(* a first fragment: MF set, offset 0 *)
FragFrame(f) == [f EXCEPT !.frag_off = 8192]

(* one 802.1Q tag in front of the IPv4 header *)
VlanFrame(f) == [f EXCEPT !.len = @ + VLAN_HLEN, !.h_proto = <<ETH_P_8021Q, ETH_P_IP>>]

(* a frame cut off inside the IPv4 header *)
ShortFrame(f) == [f EXCEPT !.len = ETH_HLEN + 10]

(* ---------------------------------------------------------------- *)
(* Initial states.  The data plane starts with empty hash maps and    *)
(* zeroed array maps (common/maps.h); the control plane has loaded    *)
(* the configuration and the tables before traffic arrives.           *)
(* ---------------------------------------------------------------- *)
Cfg(over) == [k \in CfgKeys |-> IF k \in DOMAIN over THEN over[k] ELSE 0]

Pfx(len, addr) == [prefixlen |-> len, addr |-> addr]

(* an LPM trie holding the prefixes of P, each with value val *)
Trie(P, val) == [p \in P |-> val]

(* the ring's capacity in records: more than any run here submits *)
RingSlots == 64

(* fresh maps and an empty ring *)
InitTables ==
    /\ stats_map = [n \in StatNames |-> 0]
    /\ events = <<>>
    /\ rate_limit_map = EmptyMap
    /\ global_rate_map = [k \in {0, 1} |-> ZeroRl]
    /\ conntrack_map = EmptyMap
    /\ reputation_map = EmptyMap
    /\ port_scan_map = EmptyMap
    /\ adaptive_rate_map = EmptyMap
    /\ payload_hits = EmptyMap
    /\ last = NoPacket
    /\ npkts = 0

(* one CPU, between packets *)
OneCpu == percpu = EmptyMap /\ inflight = EmptyMap

InitDataPlane == InitTables /\ ring_free = RingSlots /\ OneCpu

NoTables ==
    /\ threat_intel_map = EmptyMap
    /\ geoip_map = EmptyMap
    /\ geoip_policy = EmptyMap
    /\ attack_sig_map = EmptyMap
    /\ attack_sig_cnt = 0
    /\ payload_rule_map = EmptyMap
    /\ payload_rule_cnt = 0
    /\ port_proto_map = EmptyMap

Seed0 == <<43981, 4660>>      \* 0x1234abcd

(* ------------------- Spec: the whole pipeline --------------------- *)
MaxPackets == 2
MaxTime == 2 * NSEC_PER_SEC

Rates(r) ==
    (CFG_SYN_RATE_PPS :> r) @@ (CFG_UDP_RATE_PPS :> r) @@ (CFG_ICMP_RATE_PPS :> r)

MainConfigs ==
    { Cfg(EmptyMap),
      Cfg(CFG_ENABLED :> 1),
      Cfg((CFG_ENABLED :> 1) @@ (CFG_CONNTRACK_ENABLE :> 1)
          @@ (CFG_SYN_COOKIE_ENABLE :> 1) @@ Rates(1)),
      Cfg((CFG_ENABLED :> 1) @@ (CFG_THREAT_INTEL_EN :> 1)
          @@ (CFG_REPUTATION_ENABLE :> 1) @@ (CFG_PROTO_VALID_ENABLE :> 1)
          @@ (CFG_TCP_STATE_ENABLE :> 1) @@ (CFG_PAYLOAD_MATCH_EN :> 1)
          @@ (CFG_GLOBAL_PPS_LIMIT :> 1)),
      Cfg((CFG_ENABLED :> 1) @@ (CFG_GEOIP_ENABLE :> 1)
          @@ (CFG_ESCALATION_LEVEL :> ESCALATION_CRITICAL)) }

MainPrefixes == { Pfx(32, IpA), Pfx(8, <<10, 0, 0, 0>>) }

(* the SYN of client A, and the ACK that answers the SYN-ACK a cookie    *)
(* under Seed0 would carry (ack_seq = cookie + 1)                       *)
SynA == TcpFrame(IpA, IpSrv, 12345, 80, TCP_FLAG_SYN, <<1000, 0>>, U32Zero)

CookieA == syn_cookie_generate(parse_packet(SynA).pkt, Seed0, mss_to_index(1460))

AckA == TcpFrame(IpA, IpSrv, 12345, 80, TCP_FLAG_ACK, <<1001, 0>>, U32Inc(CookieA))

MainFrames ==
    { SynA, AckA,
      TcpFrame(IpB, IpSrv, 12345, 80, TCP_FLAG_SYN, <<1000, 0>>, U32Zero),
      TcpFrame(IpB, IpSrv, 12345, 80, TCP_FLAG_ACK, <<1001, 0>>, <<2001, 0>>),
      UdpFrame(IpA, IpSrv, 5000, 53, <<1, 2, 3, 4>>),
      UdpFrame(IpB, IpSrv, 5000, 7, <<>>),
      IcmpFrame(IpB, IpSrv, ICMP_ECHO_REQUEST),
      FragFrame(UdpFrame(IpA, IpSrv, 5000, 53, <<1, 2, 3, 4>>)),
      VlanFrame(IcmpFrame(IpA, IpSrv, ICMP_ECHO_REQUEST)),
      ShortFrame(UdpFrame(IpB, IpSrv, 5000, 7, <<>>)) }

Init ==
    /\ config \in MainConfigs
    /\ \E W \in SUBSET MainPrefixes : whitelist_v4 = Trie(W, 1)
    /\ \E B \in SUBSET MainPrefixes : blacklist_v4 = Trie(B, 1)
    /\ threat_intel_map = Trie({Pfx(32, IpB)}, [confidence |-> 90, action |-> 0])
    /\ geoip_map = EmptyMap
    /\ geoip_policy = EmptyMap
    /\ attack_sig_map = EmptyMap
    /\ attack_sig_cnt = 0
    /\ payload_rule_map = EmptyMap
    /\ payload_rule_cnt = 0
    /\ port_proto_map = EmptyMap
    /\ syn_cookie_map = [seed_current |-> Seed0, seed_previous |-> U32Zero]
    /\ now = NSEC_PER_SEC
    /\ InitDataPlane

Packet == Receive(MainFrames, MaxPackets)

Clock == Tick({NSEC_PER_SEC}, MaxTime)

Next == Packet \/ Clock

Spec == Init /\ [][Next]_vars

(* ================================================================== *)
(* Properties of the pipeline (specification Spec).                   *)
(* ================================================================== *)
(* this step is the processing of one packet that parsed *)
PacketStep == npkts' = npkts + 1 /\ last'.parsed

(* the order of the stages as the pipeline description lists them *)
ListedOrder ==
    << "acl", "threat_intel", "geoip", "reputation", "fragment", "fingerprint",
       "payload_match", "proto_validate", "syn_flood", "ack_flood", "udp_flood",
       "icmp_flood", "rate_limit", "global_rate", "conntrack" >>

(* position in ListedOrder of the first stage that writes each map *)
FirstWriter ==
    [ adaptive_rate_map |-> 2, reputation_map |-> 4, port_scan_map |-> 4,
      payload_hits |-> 7, conntrack_map |-> 8, rate_limit_map |-> 13,
      global_rate_map |-> 14 ]

(* C1: every packet processed with the scrubber enabled walks the stages *)
(* in the listed order; the walk ends at the first stage that returns    *)
(* DROP or TX, the packet then gets that action, and the maps that only  *)
(* later stages write are left as they were (a packet dropped by the ACL *)
(* takes no rate-limiter token and creates no reputation, port-scan or   *)
(* conntrack entry).                                                     *)
C1_WalkStep ==
    PacketStep =>
      LET w == last'.walk
          n == Len(w)
      IN  /\ n \in 1..Len(ListedOrder)
          /\ \A i \in 1..n : w[i].stage = ListedOrder[i]
          /\ \A i \in 1..(n - 1) : w[i].verdict \notin {VERDICT_DROP, VERDICT_TX}
          /\ n < Len(ListedOrder) => w[n].verdict \in {VERDICT_DROP, VERDICT_TX}
          /\ w[n].verdict = VERDICT_DROP /\ n < Len(ListedOrder)
                => last'.action = XDP_DROP
          /\ w[n].verdict = VERDICT_TX /\ n < Len(ListedOrder)
                => last'.action = XDP_TX
          /\ n = Len(ListedOrder) => last'.action = XDP_PASS
          /\ n < FirstWriter.adaptive_rate_map => UNCHANGED adaptive_rate_map
          /\ n < FirstWriter.reputation_map => UNCHANGED reputation_map
          /\ n < FirstWriter.port_scan_map => UNCHANGED port_scan_map
          /\ n < FirstWriter.payload_hits => UNCHANGED payload_hits
          /\ n < FirstWriter.conntrack_map => UNCHANGED conntrack_map
          /\ n < FirstWriter.rate_limit_map => UNCHANGED rate_limit_map
          /\ n < FirstWriter.global_rate_map => UNCHANGED global_rate_map

C1_PipelineOrder == [][C1_WalkStep]_vars

(* a packet was dropped by the ACL while the per-source rate limiter, the *)
(* reputation module and conntrack were switched on or a later stage had  *)
(* state to change                                                        *)
C1_Witness ==
    /\ last.seen /\ last.parsed
    /\ last.walk = << [stage |-> "acl", verdict |-> VERDICT_DROP] >>
    /\ last.action = XDP_DROP
    /\ config[CFG_CONNTRACK_ENABLE] = 1
    /\ config[CFG_SYN_RATE_PPS] > 0
    /\ npkts = MaxPackets /\ conntrack_map # EmptyMap

(* the source address of the last frame matches a blacklist prefix *)
LastBlacklisted == last.seen /\ LpmHit(blacklist_v4, last.ctx.saddr)

(* the source address of the last frame matches a whitelist prefix *)
LastWhitelisted == last.seen /\ LpmHit(whitelist_v4, last.ctx.saddr)

(* C2 as stated: a packet whose source matches a blacklist prefix is      *)
(* never passed, whatever the whitelist and the configuration hold.       *)
C2_AsStated == LastBlacklisted => last.action # XDP_PASS

(* C2, amended: with the scrubber enabled, a packet whose source matches  *)
(* a blacklist prefix and no whitelist prefix is dropped by the ACL and   *)
(* never passed.                                                          *)
C2_BlacklistDrops ==
    LastBlacklisted /\ ~LastWhitelisted /\ config[CFG_ENABLED] # 0 =>
        /\ last.action = XDP_DROP
        /\ last.parsed =>
              last.walk = << [stage |-> "acl", verdict |-> VERDICT_DROP] >>

(* a blacklisted, not whitelisted source sent a frame that every later    *)
(* stage would have passed (no module but the ACL is enabled)             *)
C2_Witness ==
    /\ LastBlacklisted /\ ~LastWhitelisted
    /\ last.parsed /\ last.action = XDP_DROP
    /\ config = Cfg(CFG_ENABLED :> 1)
    /\ last.pkt.is_fragment = 0

(* C3 as stated: a packet from a whitelisted source is dropped by no      *)
(* stage after the ACL and reaches the conntrack update.                  *)
C3_WhitelistBypass ==
    LastWhitelisted /\ last.parsed =>
        /\ last.action # XDP_DROP
        /\ last.walk[Len(last.walk)].stage = "conntrack"

(* SYN cookies are on, a seed context is present, and no ACL, threat-   *)
(* intel, GeoIP, reputation, signature or payload rule applies to A     *)
CookieSetup ==
    /\ config[CFG_ENABLED] = 1
    /\ config[CFG_SYN_COOKIE_ENABLE] = 1
    /\ ~LpmHit(whitelist_v4, IpA) /\ ~LpmHit(blacklist_v4, IpA)
    /\ config[CFG_THREAT_INTEL_EN] = 0 \/ ~LpmHit(threat_intel_map, IpA)
    /\ config[CFG_GEOIP_ENABLE] = 0
    /\ config[CFG_REPUTATION_ENABLE] = 0
    /\ attack_sig_cnt = 0 /\ payload_rule_cnt = 0

(* the tuple of client A's connection, as the conntrack key *)
TupleA == FwdKey(parse_packet(SynA).pkt, IPPROTO_TCP)

(* C4 as stated: with SYN cookies on and no rule applying to the tuple, *)
(* a pure SYN followed by the pure ACK whose ack_seq is the cookie plus *)
(* one gets TX then PASS, and afterwards the conntrack table holds one  *)
(* entry for the tuple, ESTABLISHED with the cookie-verified flag.      *)
C4_SynThenAckStep ==
    ( /\ CookieSetup
      /\ last.seen /\ last.ctx = SynA
      /\ npkts' = npkts + 1 /\ last'.ctx = AckA )
    =>
    ( /\ last.action = XDP_TX
      /\ last'.action = XDP_PASS
      /\ Has(conntrack_map', TupleA)
      /\ conntrack_map'[TupleA].state = CT_STATE_ESTABLISHED
      /\ conntrack_map'[TupleA].flags = CT_FLAG_SYN_COOKIE_VERIFIED
      /\ ~Has(conntrack_map', RevKey(parse_packet(SynA).pkt, IPPROTO_TCP)) )

C4_SynThenAck == [][C4_SynThenAckStep]_vars

(* the packet of this step is a pure SYN that reached the SYN-flood     *)
(* stage with SYN cookies on                                            *)
PureSynAtSynFlood ==
    /\ PacketStep
    /\ config[CFG_SYN_COOKIE_ENABLE] = 1
    /\ last'.pkt.ip_proto = IPPROTO_TCP
    /\ SynAck(last'.pkt.tcp_flags) = TCP_FLAG_SYN
    /\ Len(last'.walk) >= 9

(* C6 as stated: every pure SYN that reaches the SYN-flood stage with   *)
(* SYN cookies on returns TX there, and creates or modifies no          *)
(* conntrack entry and no per-source rate-limiter entry.                *)
C6_StatelessSynStep ==
    PureSynAtSynFlood =>
        /\ last'.walk[9] = [stage |-> "syn_flood", verdict |-> VERDICT_TX]
        /\ UNCHANGED <<conntrack_map, rate_limit_map>>

C6_StatelessSyn == [][C6_StatelessSynStep]_vars

(* the transitions of a TCP entry's state the conntrack table lists *)
ListedTransitions ==
    { <<CT_STATE_NEW, CT_STATE_SYN_SENT>>,
      <<CT_STATE_SYN_SENT, CT_STATE_SYN_RECV>>,
      <<CT_STATE_SYN_RECV, CT_STATE_ESTABLISHED>>,
      <<CT_STATE_ESTABLISHED, CT_STATE_FIN_WAIT>>,
      <<CT_STATE_ESTABLISHED, CT_STATE_CLOSED>>,
      <<CT_STATE_FIN_WAIT, CT_STATE_CLOSED>> }

(* C10 as stated: the state of an existing TCP conntrack entry changes  *)
(* only by a listed transition, whichever stage writes the entry.       *)
C10_ListedTransitionsStep ==
    \A k \in DOMAIN conntrack_map \cap DOMAIN conntrack_map' :
        k.protocol = IPPROTO_TCP
        /\ conntrack_map'[k].state # conntrack_map[k].state
        => <<conntrack_map[k].state, conntrack_map'[k].state>> \in ListedTransitions

C10_ListedTransitions == [][C10_ListedTransitionsStep]_vars

(* C11: when CFG_ENABLED is 0 the entry point returns XDP_PASS for every *)
(* frame, well-formed or malformed, and changes nothing: no statistics  *)
(* counter, no table entry, no token bucket, and no event is emitted.   *)
C11_DisabledStep ==
    config[CFG_ENABLED] = 0 /\ npkts' = npkts + 1 =>
        /\ last'.action = XDP_PASS
        /\ last'.walk = <<>>
        /\ UNCHANGED dp_vars

C11_DisabledPassesAll == [][C11_DisabledStep]_vars

(* with the scrubber disabled, a frame cut off inside its IPv4 header   *)
(* was passed after another frame had been passed before it            *)
C11_Witness ==
    /\ config[CFG_ENABLED] = 0
    /\ last.seen /\ last.action = XDP_PASS
    /\ last.ctx.len < ETH_HLEN + IPHDR_LEN
    /\ npkts = MaxPackets
    /\ events = <<>> /\ stats_map["rx_packets"] = 0

(* C23 as stated: drop accounting is exact. With the scrubber enabled,  *)
(* every parsed packet that receives DROP adds exactly 1 to             *)
(* dropped_packets and its length to dropped_bytes, whichever stage     *)
(* dropped it.                                                          *)
C23_DropStep ==
    /\ config[CFG_ENABLED] # 0 /\ PacketStep /\ last'.action = XDP_DROP
    =>
    /\ stats_map'["dropped_packets"] = stats_map["dropped_packets"] + 1
    /\ stats_map'["dropped_bytes"] = stats_map["dropped_bytes"] + last'.pkt.pkt_len

C23_ExactDropCount == [][C23_DropStep]_vars

(* ================================================================== *)
(* SpecCookie: the SYN-cookie round trip.  A pure SYN is answered     *)
(* with the cookie of syn_flood.h:106-118, the control plane rotates  *)
(* the seed context (maps.h, syn_cookie_map), and the ACK of the same *)
(* tuple is validated as at syn_flood.h:273-274.                      *)
(* ================================================================== *)
MaxRotations == 2

CookieSeeds == {Seed0, U32Zero, <<1, 0>>, <<65535, 65535>>}

CookieSyns ==
    { SynA,
      TcpFrame(IpB, IpSrv, 80, 12345, TCP_FLAG_SYN, <<65535, 65535>>, U32Zero),
      TcpFrame(IpSrv, IpA, 65535, 1, TCP_FLAG_SYN, U32Zero, U32Zero) }

InitCookie ==
    /\ config = Cfg((CFG_ENABLED :> 1) @@ (CFG_SYN_COOKIE_ENABLE :> 1))
    /\ whitelist_v4 = EmptyMap /\ blacklist_v4 = EmptyMap
    /\ NoTables
    /\ \E c \in CookieSeeds, p \in CookieSeeds :
          syn_cookie_map = [seed_current |-> c, seed_previous |-> p]
    /\ now = NSEC_PER_SEC
    /\ InitDataPlane

(* the cookie the SYN branch computes for a pure SYN (syn_flood.h:106-118) *)
CookieSyn ==
    /\ ~last.seen
    /\ \E f \in CookieSyns :
         \E pkt \in {parse_packet(f).pkt} :
           /\ SynAck(pkt.tcp_flags) = TCP_FLAG_SYN
           /\ \E cookie \in {syn_cookie_generate(pkt, syn_cookie_map.seed_current,
                                                  mss_to_index(1460))} :
                last' = [seen |-> TRUE, phase |-> "syn_ack", ctx |-> f,
                         reply |-> SynAckReply(f, cookie),
                         rotations |-> 0, valid |-> FALSE]
    /\ UNCHANGED <<smp_vars, ctl_vars, dp_vars, now, npkts>>

(* the control plane rotates the seed: previous := current, current := fresh *)
RotateSeed ==
    /\ last.seen => last.phase = "syn_ack" /\ last.rotations < MaxRotations
    /\ \E fresh \in CookieSeeds :
          syn_cookie_map' = [seed_current |-> fresh,
                             seed_previous |-> syn_cookie_map.seed_current]
    /\ last' = IF last.seen THEN [last EXCEPT !.rotations = @ + 1] ELSE last
    /\ UNCHANGED <<smp_vars, config, whitelist_v4, blacklist_v4, threat_intel_map, geoip_map,
                   geoip_policy, attack_sig_map, attack_sig_cnt, payload_rule_map,
                   payload_rule_cnt, port_proto_map, dp_vars, now, npkts>>

(* the client's ACK of the SYN-ACK arrives and is validated *)
CookieAck ==
    /\ last.seen /\ last.phase = "syn_ack"
    /\ \E pkt \in {parse_packet([last.ctx EXCEPT
                                    !.flags = TCP_FLAG_ACK,
                                    !.seq = last.reply.ack_seq,
                                    !.ack_seq = U32Inc(last.reply.seq)]).pkt} :
         \E ok \in {syn_cookie_validate(pkt, pkt.tcp_ack_seq)} :
            last' = [last EXCEPT !.phase = "ack", !.valid = ok]
    /\ UNCHANGED <<smp_vars, ctl_vars, dp_vars, now, npkts>>

NextCookie == CookieSyn \/ RotateSeed \/ CookieAck

SpecCookie == InitCookie /\ [][NextCookie]_vars

(* C5: the ACK of the same tuple whose ack_seq is the cookie plus one is *)
(* accepted by syn_cookie_validate when the seed context is unchanged    *)
(* and when exactly one rotation happened between the SYN and the ACK.   *)
C5_CookieRoundTrip ==
    last.seen /\ last.phase = "ack" /\ last.rotations <= 1 => last.valid

(* an ACK was accepted after one rotation to a different seed *)
C5_Witness ==
    /\ last.seen /\ last.phase = "ack" /\ last.rotations = 1 /\ last.valid
    /\ syn_cookie_map.seed_current # syn_cookie_map.seed_previous

(* ================================================================== *)
(* SpecBucket: token_bucket_consume on its own, on one bucket whose   *)
(* fields are drawn from small sets.                                  *)
(* ================================================================== *)
MaxConsumes == 2
MaxBucketRate == 2
MaxBucketTokens == 4
MaxCost == 3

(* the buckets the pipeline can hold: burst is twice the rate, and the *)
(* last refill is not in the future                                    *)
Buckets ==
    { [ tokens |-> t, last_refill_ns |-> l, rate_pps |-> r, burst_size |-> r * 2,
        total_packets |-> 0, dropped_packets |-> 0 ] :
      t \in 0..MaxBucketTokens, r \in 0..MaxBucketRate,
      l \in {0, NSEC_PER_SEC \div 2, NSEC_PER_SEC} }

InitBucket ==
    /\ config = Cfg(CFG_ENABLED :> 1)
    /\ whitelist_v4 = EmptyMap /\ blacklist_v4 = EmptyMap
    /\ NoTables
    /\ syn_cookie_map = [seed_current |-> Seed0, seed_previous |-> U32Zero]
    /\ now = NSEC_PER_SEC
    /\ stats_map = [n \in StatNames |-> 0]
    /\ events = <<>>
    /\ \E b \in Buckets : rate_limit_map = (IpA :> b)
    /\ global_rate_map = [k \in {0, 1} |-> ZeroRl]
    /\ conntrack_map = EmptyMap
    /\ reputation_map = EmptyMap
    /\ port_scan_map = EmptyMap
    /\ adaptive_rate_map = EmptyMap
    /\ payload_hits = EmptyMap
    /\ ring_free = RingSlots
    /\ OneCpu
    /\ last = NoPacket
    /\ npkts = 0

(* one call of token_bucket_consume on the bucket *)
Consume ==
    /\ npkts < MaxConsumes
    /\ \E cost \in 0..MaxCost :
         \E r \in {token_bucket_consume(rate_limit_map[IpA], now, cost)} :
            /\ rate_limit_map' = (IpA :> r.rl)
            /\ last' = [seen |-> TRUE, before |-> rate_limit_map[IpA],
                        cost |-> cost, at |-> now, ok |-> r.ok]
    /\ npkts' = npkts + 1
    /\ UNCHANGED <<smp_vars, ctl_vars, stats_map, events, global_rate_map, conntrack_map,
                   reputation_map, port_scan_map, adaptive_rate_map, payload_hits,
                   ring_free, now>>

BucketClock == Tick({NSEC_PER_SEC \div 2}, MaxTime)

NextBucket == Consume \/ BucketClock

SpecBucket == InitBucket /\ [][NextBucket]_vars

(* the token count after the refill step of the last call *)
AfterRefill ==
    LET b == last.before
        new_tokens == ((last.at - b.last_refill_ns) * b.rate_pps) \div NSEC_PER_SEC
    IN  IF new_tokens > 0
        THEN (IF b.tokens + new_tokens < b.burst_size
              THEN b.tokens + new_tokens ELSE b.burst_size)
        ELSE b.tokens

(* C8: on a bucket with rate_pps > 0, with t the tokens after the refill *)
(* step, the call is allowed and leaves t - cost when cost <= t, and is  *)
(* refused and leaves t otherwise; on a bucket with rate_pps = 0 it is   *)
(* allowed and no field of the bucket changes.                           *)
C8_ConsumeResult ==
    last.seen =>
      LET after == rate_limit_map[IpA]
      IN  IF last.before.rate_pps > 0
          THEN IF last.cost <= AfterRefill
               THEN last.ok /\ after.tokens = AfterRefill - last.cost
               ELSE ~last.ok /\ after.tokens = AfterRefill
          ELSE last.ok /\ after = last.before

(* a call that took exactly the tokens a refill had left *)
C8_Witness ==
    /\ last.seen /\ last.before.rate_pps > 0
    /\ last.at > last.before.last_refill_ns
    /\ AfterRefill > last.before.tokens
    /\ last.cost = AfterRefill /\ last.ok
    /\ rate_limit_map[IpA].tokens = 0

(* ================================================================== *)
(* SpecRate: the pipeline with the rate limiters on, while the        *)
(* control plane lowers the configured rates (maps.h, config_map).    *)
(* ================================================================== *)
MaxRatePackets == 3
InitialRate == 4

RateFrames ==
    { UdpFrame(IpA, IpSrv, 5000, 7, <<>>),
      IcmpFrame(IpB, IpSrv, ICMP_ECHO_REQUEST) }

InitRate ==
    /\ config = Cfg((CFG_ENABLED :> 1) @@ Rates(InitialRate)
                    @@ (CFG_GLOBAL_PPS_LIMIT :> InitialRate)
                    @@ (CFG_GLOBAL_BPS_LIMIT :> 8 * InitialRate * 64))
    /\ whitelist_v4 = EmptyMap /\ blacklist_v4 = EmptyMap
    /\ NoTables
    /\ syn_cookie_map = [seed_current |-> Seed0, seed_previous |-> U32Zero]
    /\ now = NSEC_PER_SEC
    /\ InitDataPlane

RatePacket == Receive(RateFrames, MaxRatePackets)

RateClock == Tick({NSEC_PER_SEC \div 2}, MaxTime)

(* the control plane writes lower rates into config_map *)
LowerRate ==
    /\ \E r \in 1..(config[CFG_UDP_RATE_PPS] - 1) :
          config' = [config EXCEPT ![CFG_SYN_RATE_PPS] = r,
                                   ![CFG_UDP_RATE_PPS] = r,
                                   ![CFG_ICMP_RATE_PPS] = r,
                                   ![CFG_GLOBAL_PPS_LIMIT] = r,
                                   ![CFG_GLOBAL_BPS_LIMIT] = 8 * r * 64]
    /\ UNCHANGED <<smp_vars, whitelist_v4, blacklist_v4, threat_intel_map, geoip_map,
                   geoip_policy, attack_sig_map, attack_sig_cnt, payload_rule_map,
                   payload_rule_cnt, port_proto_map, syn_cookie_map, dp_vars,
                   now, last, npkts>>

NextRate == RatePacket \/ RateClock \/ LowerRate

SpecRate == InitRate /\ [][NextRate]_vars

(* C7 as stated: in every reachable state every per-source bucket and   *)
(* both global buckets hold tokens <= burst_size, also after the        *)
(* control plane lowered the configured rate between two packets.       *)
C7_TokensWithinBurst ==
    /\ \A ip \in DOMAIN rate_limit_map :
          rate_limit_map[ip].tokens <= rate_limit_map[ip].burst_size
    /\ \A k \in DOMAIN global_rate_map :
          global_rate_map[k].tokens <= global_rate_map[k].burst_size

(* ================================================================== *)
(* SpecRep: reputation_check in the pipeline and reputation_penalize  *)
(* called with the penalty weights of types.h.                        *)
(* ================================================================== *)
MaxRepPackets == 22
MaxViolations == 15

RepWeights ==
    { REP_WEIGHT_SYN_NO_ACK, REP_WEIGHT_RATE_EXCEEDED, REP_WEIGHT_PROTO_ANOMALY,
      REP_WEIGHT_BAD_PAYLOAD, REP_WEIGHT_FRAGMENT, REP_WEIGHT_PORT_SCAN }

RepFrames == { UdpFrame(IpA, IpSrv, 5000, 8080, <<>>) }

InitRep ==
    /\ \E th \in {0, 2 * REP_SCORE_MAX} :
          config = Cfg((CFG_ENABLED :> 1) @@ (CFG_REPUTATION_ENABLE :> 1)
                       @@ (CFG_REPUTATION_THRESH :> th))
    /\ whitelist_v4 = EmptyMap /\ blacklist_v4 = EmptyMap
    /\ NoTables
    /\ syn_cookie_map = [seed_current |-> Seed0, seed_previous |-> U32Zero]
    /\ now = NSEC_PER_SEC
    /\ InitDataPlane

RepPacket == Receive(RepFrames, MaxRepPackets)

RepClock == Tick({2 * REP_DECAY_INTERVAL_NS}, 3 * REP_DECAY_INTERVAL_NS)

(* a module reports a violation of source A: reputation_penalize *)
Penalize ==
    /\ Has(reputation_map, IpA) => reputation_map[IpA].violation_count < MaxViolations
    /\ \E weight \in RepWeights :
          reputation_map' = reputation_penalize(reputation_map, IpA, weight, now)
    /\ UNCHANGED <<smp_vars, ctl_vars, stats_map, events, rate_limit_map, global_rate_map,
                   conntrack_map, port_scan_map, adaptive_rate_map, payload_hits,
                   ring_free, now, last, npkts>>

NextRep == RepPacket \/ RepClock \/ Penalize

SpecRep == InitRep /\ [][NextRep]_vars

(* C9: in every reachable state every reputation entry's score is       *)
(* between 0 and 1000, after entry creation, decay, port-scan penalty   *)
(* and weighted penalties.                                              *)
C9_ScoreBounded ==
    \A ip \in DOMAIN reputation_map :
        /\ reputation_map[ip].score >= 0
        /\ reputation_map[ip].score <= 1000

(* the score stands at the cap and the port-scan penalty has been applied *)
C9_Witness ==
    /\ Has(reputation_map, IpA)
    /\ reputation_map[IpA].score = 1000
    /\ stats_map["port_scan_detected"] > 0

(* C17: the blocked flag latches. A packet that reaches the reputation *)
(* stage (reputation enabled) from a source whose entry has blocked set *)
(* is dropped by that stage with reason REPUTATION, whatever the time   *)
(* since the last decay and whatever score decay would give; and no     *)
(* step of the data path (packet, clock, reputation_penalize) removes   *)
(* the flag from an entry.                                              *)
C17_BlockedStep ==
    /\ PacketStep /\ Len(last'.walk) >= 4
    /\ get_config(CFG_REPUTATION_ENABLE) # 0
    /\ Has(reputation_map, last'.pkt.src_ip)
    /\ reputation_map[last'.pkt.src_ip].blocked # 0
    =>
    /\ last'.action = XDP_DROP
    /\ Len(last'.walk) = 4
    /\ last'.walk[4] = [stage |-> "reputation", verdict |-> VERDICT_DROP]
    /\ Len(events') = Len(events) + 1
    /\ events'[Len(events')].drop_reason = DROP_REPUTATION
    /\ stats_map'["reputation_dropped"] = stats_map["reputation_dropped"] + 1

C17_KeepsBlocked ==
    \A ip \in DOMAIN reputation_map :
        reputation_map[ip].blocked # 0 =>
            Has(reputation_map', ip) /\ reputation_map'[ip].blocked # 0

C25_DistinctPorts ==
    \A ip \in DOMAIN port_scan_map :
        /\ port_scan_map[ip].distinct_ports
              <= Cardinality({ f.dest : f \in { g \in RepFrames : g.saddr = ip } })
        /\ Cardinality({ f.dest : f \in { g \in RepFrames : g.saddr = ip } })
              <= PORT_SCAN_THRESHOLD => stats_map["port_scan_detected"] = 0

(* C26 as stated: within one port-scan window the penalty is applied at *)
(* most once. A packet from a source whose distinct_ports already       *)
(* exceeded 20 in the current window adds no further port-scan penalty. *)
C26_OnceStep ==
    /\ PacketStep /\ Has(port_scan_map, last'.pkt.src_ip)
    /\ port_scan_map[last'.pkt.src_ip].distinct_ports > PORT_SCAN_THRESHOLD
    /\ port_scan_map'[last'.pkt.src_ip].window_start_ns
          = port_scan_map[last'.pkt.src_ip].window_start_ns
    =>
    /\ stats_map'["port_scan_detected"] = stats_map["port_scan_detected"]
    /\ Has(reputation_map, last'.pkt.src_ip) =>
          reputation_map'[last'.pkt.src_ip].score
              <= reputation_map[last'.pkt.src_ip].score

C26_OncePerWindow == [][C26_OnceStep]_vars

(* ================================================================== *)
(* SpecFrames: frames of every shape the parser distinguishes and of  *)
(* the traffic classes the modules single out, under a configuration  *)
(* with every module off and one with the modules on.                 *)
(* ================================================================== *)
MaxFramePackets == 2

(* n payload bytes, the first one b and the others 0 *)
Bytes(b, n) == [i \in 1..n |-> IF i = 1 THEN b ELSE 0]

(* an IPv4 header with one 4-byte option word *)
OptFrame(f) == [f EXCEPT !.ihl = 6, !.len = @ + 4, !.tot_len = @ + 4]

(* an 802.1ad tag and an 802.1Q tag in front of the IPv4 header *)
Vlan2Frame(f) ==
    [f EXCEPT !.len = @ + 2 * VLAN_HLEN,
              !.h_proto = <<ETH_P_8021AD, ETH_P_8021Q, ETH_P_IP>>]

(* three VLAN tags: the ethertype after the second tag is a VLAN TPID *)
Vlan3Frame(f) ==
    [f EXCEPT !.len = @ + 3 * VLAN_HLEN,
              !.h_proto = <<ETH_P_8021Q, ETH_P_8021Q, ETH_P_8021Q, ETH_P_IP>>]

(* the frame without its last byte *)
CutFrame(f) == [f EXCEPT !.len = @ - 1]

EchoFrame(saddr, n) ==
    [BaseFrame(IPPROTO_ICMP, saddr, IpSrv, ICMPHDR_LEN, Bytes(0, n)) EXCEPT
        !.icmp_type = ICMP_ECHO_REQUEST]

(* frames parse_packet rejects (parser.h:37-41, 48-75, 96-119, 130, 152) *)
MalformedFrames ==
    { ShortFrame(UdpFrame(IpB, IpSrv, 5000, 7, <<>>)),
      [UdpFrame(IpA, IpSrv, 5000, 7, <<>>) EXCEPT !.h_proto = <<2054>>],
      Vlan3Frame(EchoFrame(IpA, 0)),
      [VlanFrame(EchoFrame(IpA, 0)) EXCEPT !.len = ETH_HLEN + 2],
      [SynA EXCEPT !.ihl = 4],
      [UdpFrame(IpA, IpSrv, 5000, 7, <<>>) EXCEPT !.ihl = 6],
      CutFrame(UdpFrame(IpB, IpSrv, 5000, 7, <<>>)),
      CutFrame(SynA),
      CutFrame(EchoFrame(IpB, 0)),
      CutFrame(VlanFrame(UdpFrame(IpA, IpSrv, 53, 5000, <<>>))),
      [SynA EXCEPT !.doff = 4] }

(* fragments the parser accepts: first, middle and last ones, a tiny     *)
(* first one, with a VLAN tag, of a protocol without L4 parsing          *)
FragmentFrames ==
    { FragFrame(UdpFrame(IpA, IpSrv, 53, 5000, Bytes(0, 600))),
      FragFrame(UdpFrame(IpB, IpSrv, 5000, 7, <<>>)),
      [SynA EXCEPT !.frag_off = 185],
      [EchoFrame(IpB, 8) EXCEPT !.frag_off = 8192 + 1],
      VlanFrame(FragFrame(SynA)),
      [BaseFrame(47, IpA, IpSrv, 0, Bytes(0, 8)) EXCEPT !.frag_off = 8191] }

(* UDP responses from the amplification ports, at and above each        *)
(* threshold of udp_flood.h:31-34 and :79                                *)
AmpPorts ==
    (PORT_DNS :> DNS_AMP_THRESHOLD) @@ (PORT_NTP :> NTP_AMP_THRESHOLD)
    @@ (PORT_SSDP :> SSDP_AMP_THRESHOLD) @@ (PORT_MEMCACHED :> MEMCACHED_AMP_THRESHOLD)
    @@ (PORT_CHARGEN :> 256) @@ (PORT_CLDAP :> 256) @@ (PORT_SNMP :> 256)

AmpFrames ==
    { UdpFrame(IpB, IpSrv, port, 5000, Bytes(0, AmpPorts[port] + extra)) :
        port \in DOMAIN AmpPorts, extra \in {0, 1} }

(* NTP requests in mode 7 (first byte 0x17), mode 3 (0x1b), to port 123  *)
(* and to a port registered for NTP                                      *)
NtpFrames ==
    { UdpFrame(IpA, IpSrv, 5000, 123, Bytes(23, 48)),
      UdpFrame(IpA, IpSrv, 5000, 123, Bytes(23, 8)),
      UdpFrame(IpB, IpSrv, 5000, 8123, Bytes(23, 48)),
      UdpFrame(IpA, IpSrv, 5000, 123, Bytes(27, 48)) }

(* unfragmented TCP, UDP and ICMP frames, plain, tagged and with options *)
PlainFrames ==
    { SynA, AckA,
      OptFrame(TcpFrame(IpB, IpSrv, 4000, 443, TCP_FLAG_SYN, <<7, 0>>, U32Zero)),
      VlanFrame(TcpFrame(IpB, IpSrv, 4001, 22, TCP_FLAG_SYN, <<7, 0>>, U32Zero)),
      UdpFrame(IpA, IpSrv, 5000, 53, Bytes(1, 4)),
      UdpFrame(IpB, IpSrv, 5000, 7, Bytes(0, 600)),
      Vlan2Frame(UdpFrame(IpA, IpSrv, 5001, 9, <<>>)),
      EchoFrame(IpB, 0), VlanFrame(EchoFrame(IpA, 0)), EchoFrame(IpA, 1100) }

EdgeFrames ==
    MalformedFrames \cup FragmentFrames \cup AmpFrames \cup NtpFrames \cup PlainFrames

(* every optional module on, rates and limits set *)
FullConfig ==
    Cfg((CFG_ENABLED :> 1) @@ (CFG_CONNTRACK_ENABLE :> 1)
        @@ (CFG_SYN_COOKIE_ENABLE :> 1) @@ Rates(2)
        @@ (CFG_GLOBAL_PPS_LIMIT :> 2) @@ (CFG_GLOBAL_BPS_LIMIT :> 64000)
        @@ (CFG_THREAT_INTEL_EN :> 1) @@ (CFG_REPUTATION_ENABLE :> 1)
        @@ (CFG_PROTO_VALID_ENABLE :> 1) @@ (CFG_TCP_STATE_ENABLE :> 1)
        @@ (CFG_PAYLOAD_MATCH_EN :> 1) @@ (CFG_DNS_VALID_MODE :> 2))

InitFrames ==
    /\ config \in { Cfg(EmptyMap),
                    Cfg(CFG_ENABLED :> 1),
                    Cfg((CFG_ENABLED :> 1) @@ (CFG_PROTO_VALID_ENABLE :> 1)),
                    FullConfig }
    /\ \E W \in SUBSET {Pfx(32, IpA)} : whitelist_v4 = Trie(W, 1)
    /\ \E B \in SUBSET {Pfx(32, IpB)} : blacklist_v4 = Trie(B, 1)
    /\ threat_intel_map = EmptyMap
    /\ geoip_map = EmptyMap
    /\ geoip_policy = EmptyMap
    /\ attack_sig_map = EmptyMap
    /\ attack_sig_cnt = 0
    /\ payload_rule_map = EmptyMap
    /\ payload_rule_cnt = 0
    /\ port_proto_map \in {EmptyMap, (bpf_htons(8123) :> 2)}
    /\ syn_cookie_map = [seed_current |-> Seed0, seed_previous |-> U32Zero]
    /\ now = NSEC_PER_SEC
    /\ InitDataPlane

FramesPacket == Receive(EdgeFrames, MaxFramePackets)

FramesClock == Tick({NSEC_PER_SEC}, 2 * NSEC_PER_SEC)

NextFrames == FramesPacket \/ FramesClock

SpecFrames == InitFrames /\ [][NextFrames]_vars

(* number of VLAN tags in front of the IPv4 header, as far as the        *)
(* parser follows them                                                  *)
TagsOf(f) ==
    IF ~IsVlan(f.h_proto[1]) THEN 0 ELSE IF ~IsVlan(f.h_proto[2]) THEN 1 ELSE 2

(* the L4 header length parse_packet requires for the protocol *)
L4HeaderOf(f) ==
    CASE f.protocol = IPPROTO_TCP  -> TCPHDR_LEN
      [] f.protocol = IPPROTO_UDP  -> UDPHDR_LEN
      [] f.protocol = IPPROTO_ICMP -> ICMPHDR_LEN
      [] OTHER -> 0

(* the rejections the parser's description lists: shorter than Ethernet *)
(* plus IPv4 header, ethertype other than IPv4 after at most two VLAN   *)
(* tags, IHL < 5, truncated L4 header, TCP data offset < 5              *)
ListedMalformed(f) ==
    LET l3 == ETH_HLEN + TagsOf(f) * VLAN_HLEN
    IN  \/ f.len < l3 + IPHDR_LEN
        \/ f.h_proto[TagsOf(f) + 1] # ETH_P_IP
        \/ f.ihl < 5
        \/ (f.frag_off % 8192) = 0 /\ f.len < l3 + f.ihl * 4 + L4HeaderOf(f)
        \/ (f.frag_off % 8192) = 0 /\ f.protocol = IPPROTO_TCP /\ f.doff < 5

(* C12: with the scrubber enabled, every frame the parser rejects gets  *)
(* XDP_DROP, increases dropped_packets by exactly one, emits one event  *)
(* with drop reason PARSE_ERROR and is seen by no stage (no table is    *)
(* written for it); and every frame of a listed kind is rejected.       *)
C12_ParseErrorStep ==
    config[CFG_ENABLED] # 0 /\ npkts' = npkts + 1 =>
        /\ ListedMalformed(last'.ctx) => ~last'.parsed
        /\ ~last'.parsed =>
              /\ last'.action = XDP_DROP
              /\ last'.walk = <<>>
              /\ stats_map' = [stats_map EXCEPT !["dropped_packets"] = @ + 1]
              /\ Len(events') = Len(events) + 1
              /\ SubSeq(events', 1, Len(events)) = events
              /\ events'[Len(events')].drop_reason = DROP_PARSE_ERROR
              /\ events'[Len(events')].action = 1
              /\ UNCHANGED <<rate_limit_map, global_rate_map, conntrack_map,
                             reputation_map, port_scan_map, adaptive_rate_map,
                             payload_hits>>

IsFragmentFrame(f) == HasBit(f.frag_off, 8192) \/ (f.frag_off % 8192) # 0

(* C13: with the scrubber enabled, no IPv4 fragment the parser accepts, *)
(* first or non-first, of any size, protocol and VLAN tagging, gets     *)
(* PASS or TX: one that no earlier stage drops is dropped by the        *)
(* fragment stage with reason FRAGMENT.                                 *)
C13_FragmentStep ==
    /\ config[CFG_ENABLED] # 0 /\ PacketStep
    /\ IsFragmentFrame(last'.ctx)
    =>
    /\ last'.action = XDP_DROP
    /\ Len(last'.walk) <= 5
    /\ last'.walk[Len(last'.walk)].verdict = VERDICT_DROP
    /\ Len(last'.walk) = 5 =>
          /\ last'.walk[5].stage = "fragment"
          /\ events'[Len(events')].drop_reason = DROP_FRAGMENT
          /\ stats_map'["fragment_dropped"] = stats_map["fragment_dropped"] + 1

C13_FragmentsDropped == [][C13_FragmentStep]_vars

(* a whitelisted source's VLAN-tagged first fragment, large enough not  *)
(* to be a tiny fragment, was dropped by the fragment stage             *)
C13_Witness ==
    /\ last.seen /\ last.parsed /\ LastWhitelisted
    /\ last.ctx.frag_off = 8192 /\ TagsOf(last.ctx) = 1
    /\ Len(last.walk) = 5 /\ last.action = XDP_DROP
    /\ events[Len(events)].drop_reason = DROP_FRAGMENT

(* the L4 payload length of an unfragmented UDP frame *)
UdpPayloadLen(f) == f.tot_len - f.ihl * 4 - UDPHDR_LEN

(* a UDP packet from an amplification port, its payload over / at the   *)
(* port's threshold                                                     *)
AmpOver(f) ==
    /\ f.protocol = IPPROTO_UDP /\ f.source \in DOMAIN AmpPorts
    /\ UdpPayloadLen(f) > AmpPorts[f.source]

AmpAt(f) ==
    /\ f.protocol = IPPROTO_UDP /\ f.source \in DOMAIN AmpPorts
    /\ UdpPayloadLen(f) = AmpPorts[f.source]

C14_AmpStep ==
    config[CFG_ENABLED] # 0 /\ PacketStep =>
        /\ AmpOver(last'.ctx) =>
              /\ last'.action = XDP_DROP
              /\ Len(last'.walk) <= 11
              /\ Len(last'.walk) = 11 =>
                    last'.walk[11] = [stage |-> "udp_flood", verdict |-> VERDICT_DROP]
        /\ AmpAt(last'.ctx) /\ Len(last'.walk) >= 11 =>
              last'.walk[11] = [stage |-> "udp_flood", verdict |-> VERDICT_PASS]

BaselineSetup ==
    /\ config = Cfg(CFG_ENABLED :> 1)
    /\ whitelist_v4 = EmptyMap /\ blacklist_v4 = EmptyMap
    /\ attack_sig_cnt = 0 /\ payload_rule_cnt = 0
    /\ port_proto_map = EmptyMap

(* a well-formed unfragmented TCP SYN, a UDP datagram from a source     *)
(* port that is no amplification port, or an ICMP echo request          *)
OrdinaryFrame(f) ==
    /\ ~ListedMalformed(f) /\ ~IsFragmentFrame(f)
    /\ \/ f.protocol = IPPROTO_TCP /\ f.flags = TCP_FLAG_SYN
       \/ f.protocol = IPPROTO_UDP /\ f.source \notin DOMAIN AmpPorts
       \/ f.protocol = IPPROTO_ICMP /\ f.icmp_type = ICMP_ECHO_REQUEST

NtpMode7(f) ==
    /\ f.protocol = IPPROTO_UDP /\ f.frag_off = 0
    /\ \/ f.dest = PROTO_PORT_NTP
       \/ HasBit(ProtoFlags(bpf_htons(f.dest)), 2)
    /\ Len(f.payload) >= 1 /\ f.payload[1] % 8 = NTP_MODE_PRIVATE

(* C19 as stated: with protocol validation enabled, every UDP packet to *)
(* port 123 or to a port registered for NTP whose first payload byte    *)
(* has mode bits 7 and that reaches protocol validation is dropped      *)
(* there with reason NTP_AMP, whatever its payload length and the       *)
(* conntrack table.                                                     *)
C19_Mode7Dropped ==
    /\ config[CFG_ENABLED] # 0 /\ config[CFG_PROTO_VALID_ENABLE] # 0
    /\ last.seen /\ last.parsed /\ NtpMode7(last.ctx)
    /\ Len(last.walk) >= 8
    =>
    /\ last.action = XDP_DROP
    /\ last.walk[8] = [stage |-> "proto_validate", verdict |-> VERDICT_DROP]
    /\ events # <<>>
    /\ events[Len(events)].drop_reason = DROP_NTP_AMP

(* C20 as stated: after parse_packet succeeds on an unfragmented TCP,   *)
(* UDP or ICMP frame, l4_offset is the byte offset of the L4 header     *)
(* (14 + 4 per VLAN tag + 4 x IHL), payload_offset of a TCP or UDP      *)
(* frame is l4_offset plus the L4 header length, and both are non-zero. *)
C20_OffsetsSet ==
    /\ last.seen /\ last.parsed /\ last.pkt.is_fragment = 0
    /\ last.ctx.protocol \in {IPPROTO_TCP, IPPROTO_UDP, IPPROTO_ICMP}
    =>
    /\ last.pkt.l4_offset = ETH_HLEN + 4 * TagsOf(last.ctx) + 4 * last.ctx.ihl
    /\ last.pkt.l4_offset # 0
    /\ last.ctx.protocol = IPPROTO_TCP =>
          /\ last.pkt.payload_offset = last.pkt.l4_offset + 4 * last.ctx.doff
          /\ last.pkt.payload_offset # 0
    /\ last.ctx.protocol = IPPROTO_UDP =>
          /\ last.pkt.payload_offset = last.pkt.l4_offset + UDPHDR_LEN
          /\ last.pkt.payload_offset # 0

(* the penalty weight of the violation each stage detects when it drops *)
ViolationWeight ==
    [ rate_limit |-> REP_WEIGHT_RATE_EXCEEDED, fragment |-> REP_WEIGHT_FRAGMENT,
      proto_validate |-> REP_WEIGHT_PROTO_ANOMALY,
      payload_match |-> REP_WEIGHT_BAD_PAYLOAD, syn_flood |-> REP_WEIGHT_SYN_NO_ACK ]

(* C24 as stated: with reputation enabled, when the per-source rate     *)
(* limiter, the fragment stage, protocol validation, payload matching   *)
(* or the cookie check drops a packet, the source's reputation score    *)
(* rises by the stage's weight (30, 20, 40, 60, 50), capped at 1000,    *)
(* above the score reputation_check left for this packet.               *)
C24_PenaltyStep ==
    /\ PacketStep /\ get_config(CFG_REPUTATION_ENABLE) # 0
    /\ last'.action = XDP_DROP
    /\ last'.walk[Len(last'.walk)].stage \in DOMAIN ViolationWeight
    =>
    \E before \in {reputation_check(last'.pkt, DpState, now).st.reputation_map} :
        /\ Has(reputation_map', last'.pkt.src_ip)
        /\ reputation_map'[last'.pkt.src_ip].score =
              CapScore(before[last'.pkt.src_ip].score
                       + ViolationWeight[last'.walk[Len(last'.walk)].stage])

C24_ViolationPenalized == [][C24_PenaltyStep]_vars

(* ================================================================== *)
(* SpecAdaptive: a source the threat-intel feed marks for rate        *)
(* limiting (action 1) gets an adaptive override, and its packets go  *)
(* on to the per-source rate limiter.                                 *)
(* ================================================================== *)
MaxAdaptivePackets == 3
ConfiguredRate == 4

AdaptiveFrames ==
    { UdpFrame(IpB, IpSrv, 5000, 7, <<>>), UdpFrame(IpA, IpSrv, 5000, 7, <<>>) }

InitAdaptive ==
    /\ config = Cfg((CFG_ENABLED :> 1) @@ (CFG_THREAT_INTEL_EN :> 1)
                    @@ Rates(ConfiguredRate))
    /\ whitelist_v4 = EmptyMap /\ blacklist_v4 = EmptyMap
    /\ threat_intel_map = Trie({Pfx(32, IpB)}, [confidence |-> 90, action |-> 1])
    /\ geoip_map = EmptyMap
    /\ geoip_policy = EmptyMap
    /\ attack_sig_map = EmptyMap
    /\ attack_sig_cnt = 0
    /\ payload_rule_map = EmptyMap
    /\ payload_rule_cnt = 0
    /\ port_proto_map = EmptyMap
    /\ syn_cookie_map = [seed_current |-> Seed0, seed_previous |-> U32Zero]
    /\ now = NSEC_PER_SEC
    /\ InitDataPlane

AdaptivePacket == Receive(AdaptiveFrames, MaxAdaptivePackets)

AdaptiveClock == Tick({NSEC_PER_SEC \div 4, NSEC_PER_SEC}, 3 * NSEC_PER_SEC)

NextAdaptive == AdaptivePacket \/ AdaptiveClock

SpecAdaptive == InitAdaptive /\ [][NextAdaptive]_vars

(* C16 as stated: when the adaptive override map holds a value V for a  *)
(* packet's source, the per-source rate limiter uses V, not the         *)
(* configured rate, as rate_pps of that source's bucket.                *)
C16_OverrideStep ==
    /\ PacketStep /\ Len(last'.walk) >= 13
    /\ Has(adaptive_rate_map', last'.pkt.src_ip)
    =>
    /\ Has(rate_limit_map', last'.pkt.src_ip)
    /\ rate_limit_map'[last'.pkt.src_ip].rate_pps
          = adaptive_rate_map'[last'.pkt.src_ip]

C16_OverrideUsed == [][C16_OverrideStep]_vars

(* ================================================================== *)
(* SpecRing: the events ring starts with room for zero, one or two    *)
(* records, the consumer frees records between packets, and frames of *)
(* every class arrive under the configuration with the modules on.    *)
(* ================================================================== *)
MaxRingPackets == 2
MaxRingFree == 2

InitRing ==
    /\ config = FullConfig
    /\ whitelist_v4 = EmptyMap
    /\ \E B \in SUBSET {Pfx(32, IpB)} : blacklist_v4 = Trie(B, 1)
    /\ NoTables
    /\ syn_cookie_map = [seed_current |-> Seed0, seed_previous |-> U32Zero]
    /\ now = NSEC_PER_SEC
    /\ InitTables
    /\ ring_free \in 0..MaxRingFree
    /\ OneCpu

RingPacket == Receive(EdgeFrames, MaxRingPackets)

RingClock == Tick({NSEC_PER_SEC}, 2 * NSEC_PER_SEC)

(* the user-space reader consumes a record and its room is free again *)
RingConsume ==
    /\ ring_free < MaxRingFree
    /\ ring_free' = ring_free + 1
    /\ UNCHANGED <<smp_vars, ctl_vars, stats_map, events, rate_limit_map, global_rate_map,
                   conntrack_map, reputation_map, port_scan_map, adaptive_rate_map,
                   payload_hits, now, last, npkts>>

NextRing == RingPacket \/ RingClock \/ RingConsume

SpecRing == InitRing /\ [][NextRing]_vars

(* the events one packet submits when the ring has room for all of them *)
Emitted(before, after) == SubSeq(after, Len(before) + 1, Len(after))

(* C18: a failed event-ring reservation loses only the event. For every *)
(* packet and every state, the verdict, the reply, every statistics     *)
(* counter and every table after the packet equal the ones the same     *)
(* packet gives in the same state with room in the ring for every       *)
(* event; the ring receives the first events there was room for, and    *)
(* no counter differs, so none records the failure.                     *)
C18_RingStep ==
    npkts' = npkts + 1 =>
      \E ok \in {xdp_ddos_scrubber(last'.ctx,
                                    [DpState EXCEPT !.ring_free = RingSlots], now)} :
          /\ last'.action = ok.action
          /\ last'.walk = ok.walk
          /\ last'.reply = ok.st.reply
          /\ stats_map' = ok.st.stats
          /\ rate_limit_map' = ok.st.rate_limit_map
          /\ global_rate_map' = ok.st.global_rate_map
          /\ conntrack_map' = ok.st.conntrack_map
          /\ reputation_map' = ok.st.reputation_map
          /\ port_scan_map' = ok.st.port_scan_map
          /\ adaptive_rate_map' = ok.st.adaptive_rate_map
          /\ payload_hits' = ok.st.payload_hits
          /\ \E n \in {Len(Emitted(events, ok.st.events))} :
                /\ Len(events') = Len(events) + (IF n < ring_free THEN n ELSE ring_free)
                /\ events' = SubSeq(ok.st.events, 1, Len(events'))

C18_OnlyEventLost == [][C18_RingStep]_vars

(* a frame that does not parse was dropped and counted while the ring  *)
(* had no room: its PARSE_ERROR event is lost and the counters show the *)
(* drop alone                                                           *)
C18_Witness ==
    /\ last.seen /\ ~last.parsed /\ last.action = XDP_DROP
    /\ ring_free = 0 /\ events = <<>>
    /\ npkts = 1
    /\ stats_map = [[n \in StatNames |-> 0] EXCEPT !["dropped_packets"] = 1]

(* ================================================================== *)
(* SpecTcp: TCP segments of one client and one server through the     *)
(* pipeline: the handshake in both directions, acknowledgements that  *)
(* carry a cookie and that do not, resets and a FIN, under            *)
(* configurations with connection tracking, SYN cookies and TCP-state *)
(* validation switched on in turn.                                    *)
(* ================================================================== *)
MaxTcpPackets == 3

(* the server's SYN+ACK, in the reverse direction of SynA *)
SynAckSrv ==
    TcpFrame(IpSrv, IpA, 80, 12345, TCP_FLAG_SYN + TCP_FLAG_ACK,
             <<5000, 0>>, <<1001, 0>>)

(* the client's ACK of the server's SYN+ACK *)
AckClient ==
    TcpFrame(IpA, IpSrv, 12345, 80, TCP_FLAG_ACK, <<1001, 0>>, <<5001, 0>>)

TcpFrames ==
    { SynA, SynAckSrv, AckClient, AckA,
      TcpFrame(IpB, IpSrv, 12345, 80, TCP_FLAG_ACK, <<1001, 0>>, <<2001, 0>>),
      TcpFrame(IpA, IpSrv, 12345, 80, TCP_FLAG_RST, <<1001, 0>>, U32Zero),
      TcpFrame(IpA, IpSrv, 12345, 80, TCP_FLAG_RST + TCP_FLAG_ACK,
               <<1001, 0>>, <<5001, 0>>),
      TcpFrame(IpA, IpSrv, 12345, 80, TCP_FLAG_FIN, <<1001, 0>>, U32Zero),
      TcpFrame(IpA, IpSrv, 12345, 80, TCP_FLAG_PSH + TCP_FLAG_ACK,
               <<1001, 0>>, <<5001, 0>>) }

TcpConfigs ==
    { Cfg(CFG_ENABLED :> 1),
      Cfg((CFG_ENABLED :> 1) @@ (CFG_SYN_COOKIE_ENABLE :> 1)),
      Cfg((CFG_ENABLED :> 1) @@ (CFG_CONNTRACK_ENABLE :> 1)),
      Cfg((CFG_ENABLED :> 1) @@ (CFG_CONNTRACK_ENABLE :> 1)
          @@ (CFG_SYN_COOKIE_ENABLE :> 1)),
      Cfg((CFG_ENABLED :> 1) @@ (CFG_CONNTRACK_ENABLE :> 1)
          @@ (CFG_PROTO_VALID_ENABLE :> 1) @@ (CFG_TCP_STATE_ENABLE :> 1)),
      Cfg((CFG_ENABLED :> 1) @@ (CFG_CONNTRACK_ENABLE :> 1)
          @@ (CFG_PROTO_VALID_ENABLE :> 1) @@ (CFG_TCP_STATE_ENABLE :> 1)
          @@ (CFG_ESCALATION_LEVEL :> ESCALATION_HIGH)),
      Cfg((CFG_ENABLED :> 1) @@ (CFG_CONNTRACK_ENABLE :> 1)
          @@ (CFG_PROTO_VALID_ENABLE :> 1) @@ (CFG_TCP_STATE_ENABLE :> 1)
          @@ (CFG_ESCALATION_LEVEL :> ESCALATION_CRITICAL)) }

InitTcp ==
    /\ config \in TcpConfigs
    /\ whitelist_v4 = EmptyMap /\ blacklist_v4 = EmptyMap
    /\ NoTables
    /\ syn_cookie_map \in { [seed_current |-> Seed0, seed_previous |-> U32Zero],
                            [seed_current |-> <<1, 0>>, seed_previous |-> Seed0] }
    /\ now = NSEC_PER_SEC
    /\ InitDataPlane

TcpPacket == Receive(TcpFrames, MaxTcpPackets)

TcpClock == Tick({NSEC_PER_SEC}, 2 * NSEC_PER_SEC)

NextTcp == TcpPacket \/ TcpClock

SpecTcp == InitTcp /\ [][NextTcp]_vars

(* the acknowledgement number minus one is the cookie of the packet's   *)
(* tuple under neither seed                                             *)
NoCookie(pkt) ==
    \E c \in {U32Dec(pkt.tcp_ack_seq)} :
        /\ c # syn_cookie_generate(pkt, syn_cookie_map.seed_current, c[1] % 4)
        /\ c # syn_cookie_generate(pkt, syn_cookie_map.seed_previous, c[1] % 4)

(* C21: with SYN cookies enabled, a TCP packet with ACK set and SYN     *)
(* clear that reaches the SYN-flood stage from a tuple without a        *)
(* conntrack entry, and whose ack_seq - 1 is the tuple's cookie under   *)
(* neither seed, is dropped there with reason SYN_FLOOD, adds one to    *)
(* syn_cookies_failed and leaves the conntrack table unchanged.         *)
C21_BadAckStep ==
    /\ PacketStep /\ get_config(CFG_SYN_COOKIE_ENABLE) # 0
    /\ Len(last'.walk) >= 9
    /\ last'.pkt.ip_proto = IPPROTO_TCP
    /\ SynAck(last'.pkt.tcp_flags) = TCP_FLAG_ACK
    /\ ~Has(conntrack_map, FwdKey(last'.pkt, IPPROTO_TCP))
    /\ NoCookie(last'.pkt)
    =>
    /\ last'.action = XDP_DROP
    /\ last'.walk[Len(last'.walk)] = [stage |-> "syn_flood", verdict |-> VERDICT_DROP]
    /\ Len(events') = Len(events) + 1
    /\ events'[Len(events')].drop_reason = DROP_SYN_FLOOD
    /\ stats_map'["syn_cookies_failed"] = stats_map["syn_cookies_failed"] + 1
    /\ conntrack_map' = conntrack_map

C21_BadAckDropped == [][C21_BadAckStep]_vars

(* a PSH+ACK segment whose acknowledgement number is the cookie of no  *)
(* seed was dropped by the SYN-flood stage while the table held only    *)
(* the entry the server's SYN+ACK had created for the reverse tuple     *)
C21_Witness ==
    /\ get_config(CFG_SYN_COOKIE_ENABLE) # 0
    /\ last.seen /\ last.parsed /\ last.action = XDP_DROP
    /\ Len(last.walk) = 9
    /\ last.pkt.tcp_flags = TCP_FLAG_PSH + TCP_FLAG_ACK
    /\ conntrack_map # EmptyMap
    /\ stats_map["syn_cookies_failed"] >= 1
    /\ events[Len(events)].drop_reason = DROP_SYN_FLOOD

(* ================================================================== *)
(* SpecHandshake: the three segments of a normal TCP handshake pass   *)
(* the pipeline in order, with connection tracking on and SYN cookies *)
(* and TCP-state validation off, at any pace.                         *)
(* ================================================================== *)
HandshakeLen == 3
MaxHandshakeTime == NSEC_PER_SEC + 600

ClientSyns ==
    { SynA,
      TcpFrame(IpB, IpSrv, 4000, 443, TCP_FLAG_SYN, <<7, 0>>, U32Zero),
      VlanFrame(TcpFrame(IpB, IpSrv, 4001, 22, TCP_FLAG_SYN, <<65535, 65535>>, U32Zero)) }

(* the peer's answer to segment f: addresses and ports swapped, the     *)
(* sequence number acknowledged                                         *)
Answer(f, flags, seq) ==
    [f EXCEPT !.saddr = f.daddr, !.daddr = f.saddr,
              !.source = f.dest, !.dest = f.source,
              !.flags = flags, !.seq = seq, !.ack_seq = U32Inc(f.seq)]

(* the segment that comes next in the handshake *)
NextSegment ==
    CASE npkts = 0 -> ClientSyns
      [] npkts = 1 -> { Answer(last.ctx, TCP_FLAG_SYN + TCP_FLAG_ACK, <<5000, 0>>) }
      [] npkts = 2 -> { Answer(last.ctx, TCP_FLAG_ACK, last.ctx.ack_seq) }
      [] OTHER -> {}

InitHandshake ==
    /\ config \in { Cfg((CFG_ENABLED :> 1) @@ (CFG_CONNTRACK_ENABLE :> 1)),
                    Cfg((CFG_ENABLED :> 1) @@ (CFG_CONNTRACK_ENABLE :> 1)
                        @@ Rates(100)) }
    /\ whitelist_v4 = EmptyMap /\ blacklist_v4 = EmptyMap
    /\ NoTables
    /\ syn_cookie_map = [seed_current |-> Seed0, seed_previous |-> U32Zero]
    /\ now = NSEC_PER_SEC
    /\ InitDataPlane

HandshakePacket == Receive(NextSegment, HandshakeLen)

HandshakeClock == Tick({100, 300}, MaxHandshakeTime)

NextHandshake == HandshakePacket \/ HandshakeClock

SpecHandshake == InitHandshake /\ [][NextHandshake]_vars

(* C22 as stated: with conntrack enabled and SYN cookies and TCP-state  *)
(* validation off, after the client's SYN, the server's SYN+ACK and the *)
(* client's ACK have passed the pipeline in this order, the flow's      *)
(* conntrack entry is in state ESTABLISHED.                             *)
C22_Established ==
    /\ npkts = HandshakeLen /\ last.seen /\ last.action = XDP_PASS
    /\ stats_map["tx_packets"] = HandshakeLen
    =>
    /\ Has(conntrack_map, FwdKey(last.pkt, IPPROTO_TCP))
    /\ conntrack_map[FwdKey(last.pkt, IPPROTO_TCP)].state = CT_STATE_ESTABLISHED

(* TCP-state validation is switched on *)
TcpStateOn ==
    get_config(CFG_PROTO_VALID_ENABLE) # 0 /\ get_config(CFG_TCP_STATE_ENABLE) # 0

(* the TCP-state validator dropped the packet of this step with reason  *)
(* TCP_STATE                                                            *)
TcpStateDropped ==
    /\ last'.action = XDP_DROP
    /\ last'.walk[Len(last'.walk)] = [stage |-> "proto_validate", verdict |-> VERDICT_DROP]
    /\ Len(events') = Len(events) + 1
    /\ events'[Len(events')].drop_reason = DROP_TCP_STATE

(* C27 as stated: with TCP-state validation enabled, a TCP packet       *)
(* without a conntrack entry that reaches the validator passes it only  *)
(* if it is a pure SYN (SYN set, ACK clear) or a lone RST; every other  *)
(* flag combination is dropped with reason TCP_STATE.                   *)
C27_NoEntryStep ==
    /\ PacketStep /\ TcpStateOn /\ Len(last'.walk) >= 8
    /\ last'.pkt.ip_proto = IPPROTO_TCP
    /\ ~Has(conntrack_map, FwdKey(last'.pkt, IPPROTO_TCP))
    /\ SynAck(last'.pkt.tcp_flags) # TCP_FLAG_SYN
    /\ last'.pkt.tcp_flags # TCP_FLAG_RST
    =>
    TcpStateDropped

C27_OnlySynOrRst == [][C27_NoEntryStep]_vars

(* the packet's flags violate the state of its conntrack entry *)
Violates(pkt) ==
    /\ pkt.ip_proto = IPPROTO_TCP
    /\ Has(conntrack_map, FwdKey(pkt, IPPROTO_TCP))
    /\ FlagViolation(conntrack_map[FwdKey(pkt, IPPROTO_TCP)].state, pkt.tcp_flags)

(* C28 as stated: at escalation HIGH or CRITICAL, for an existing       *)
(* conntrack entry whose violation count is 0, the first packet whose   *)
(* flags violate the entry's state is dropped with reason TCP_STATE.    *)
C28_StrictStep ==
    /\ PacketStep /\ TcpStateOn /\ Len(last'.walk) >= 8
    /\ get_config(CFG_ESCALATION_LEVEL) >= ESCALATION_HIGH
    /\ Violates(last'.pkt)
    /\ conntrack_map[FwdKey(last'.pkt, IPPROTO_TCP)].violation_count = 0
    =>
    TcpStateDropped

C28_StrictFirstViolation == [][C28_StrictStep]_vars

(* the data-plane state a stage is called with: the state the stages    *)
(* before it in xdp_main.c left, for a packet that reaches it           *)
RECURSIVE StateBefore(_, _, _, _, _, _)
StateBefore(name, i, ctx, pkt, st, now_ns) ==
    IF StageOrder[i] = name THEN st
    ELSE Then(RunStage(StageOrder[i], ctx, pkt, st, now_ns), LAMBDA r :
              StateBefore(name, i + 1, ctx, pkt, r.st, now_ns))

AckFloodStage == 10

(* C30: with conntrack enabled, a TCP packet whose flags are exactly    *)
(* ACK is dropped by the ACK-flood stage, with reason ACK_INVALID, if   *)
(* and only if the conntrack table the stage looks at holds no entry    *)
(* for its 5-tuple in the forward or the reverse direction; with        *)
(* conntrack disabled the stage passes the packet and the conntrack     *)
(* table is the one the stage was called with.                          *)
C30_AckStep ==
    /\ PacketStep /\ Len(last'.walk) >= AckFloodStage
    =>
    \E at \in {StateBefore("ack_flood", 1, last'.ctx, last'.pkt,
                           stats_rx(DpState, last'.pkt.pkt_len), now)} :
      /\ last'.walk[AckFloodStage].stage = "ack_flood"
      /\ IF get_config(CFG_CONNTRACK_ENABLE) # 0
         THEN /\ last'.pkt.ip_proto = IPPROTO_TCP
              /\ last'.pkt.tcp_flags = TCP_FLAG_ACK
              =>
              /\ last'.walk[AckFloodStage].verdict = VERDICT_DROP
                 <=> /\ ~Has(at.conntrack_map, FwdKey(last'.pkt, IPPROTO_TCP))
                     /\ ~Has(at.conntrack_map, RevKey(last'.pkt, IPPROTO_TCP))
              /\ last'.walk[AckFloodStage].verdict = VERDICT_DROP
                 => /\ last'.action = XDP_DROP
                    /\ Len(last'.walk) = AckFloodStage
                    /\ conntrack_map' = at.conntrack_map
                    /\ stats_map'["ack_flood_dropped"]
                         = stats_map["ack_flood_dropped"] + 1
                    /\ Len(events') = Len(events) + 1
                    /\ events'[Len(events')].drop_reason = DROP_ACK_INVALID
         ELSE /\ last'.walk[AckFloodStage].verdict = VERDICT_PASS
              /\ conntrack_map' = at.conntrack_map
              /\ stats_map'["ack_flood_dropped"] = stats_map["ack_flood_dropped"]

C30_AckNeedsEntry == [][C30_AckStep]_vars

(* an ACK without any entry was dropped, and the last packet is an ACK  *)
(* that the stage passed on the entry of the reverse direction alone    *)
C30_Witness ==
    /\ last.seen /\ last.parsed /\ config[CFG_CONNTRACK_ENABLE] # 0
    /\ last.pkt.ip_proto = IPPROTO_TCP /\ last.pkt.tcp_flags = TCP_FLAG_ACK
    /\ Len(last.walk) >= AckFloodStage
    /\ last.walk[AckFloodStage] = [stage |-> "ack_flood", verdict |-> VERDICT_PASS]
    /\ ~Has(conntrack_map, FwdKey(last.pkt, IPPROTO_TCP))
    /\ Has(conntrack_map, RevKey(last.pkt, IPPROTO_TCP))
    /\ conntrack_map[RevKey(last.pkt, IPPROTO_TCP)].packets_rev >= 1
    /\ stats_map["ack_flood_dropped"] >= 1
    /\ \E i \in 1..Len(events) : events[i].drop_reason = DROP_ACK_INVALID

(* C31 as stated: every packet that is passed with conntrack enabled    *)
(* adds exactly 1 to the packet counter and exactly its length to the   *)
(* byte counter of its flow's entry, in its direction; a flow without   *)
(* an entry gets one that has counted this packet once.                 *)
C31_CountStep ==
    /\ PacketStep /\ get_config(CFG_CONNTRACK_ENABLE) # 0
    /\ last'.action = XDP_PASS /\ last'.pkt.ip_proto = IPPROTO_TCP
    =>
    \E fwd \in {FwdKey(last'.pkt, IPPROTO_TCP)} :
    \E rev \in {RevKey(last'.pkt, IPPROTO_TCP)} :
      IF Has(conntrack_map, fwd)
      THEN /\ conntrack_map'[fwd].packets_fwd = conntrack_map[fwd].packets_fwd + 1
           /\ conntrack_map'[fwd].bytes_fwd
                = conntrack_map[fwd].bytes_fwd + last'.pkt.pkt_len
      ELSE IF Has(conntrack_map, rev)
      THEN /\ conntrack_map'[rev].packets_rev = conntrack_map[rev].packets_rev + 1
           /\ conntrack_map'[rev].bytes_rev
                = conntrack_map[rev].bytes_rev + last'.pkt.pkt_len
      ELSE /\ Has(conntrack_map', fwd)
           /\ conntrack_map'[fwd].packets_fwd = 1
           /\ conntrack_map'[fwd].bytes_fwd = last'.pkt.pkt_len

C31_CountedOnce == [][C31_CountStep]_vars

(* C32: over the lifetime of a conntrack entry its state never moves    *)
(* backwards in the order NEW < SYN_SENT < SYN_RECV < ESTABLISHED <     *)
(* FIN_WAIT < CLOSED, whatever packet the pipeline handles: CLOSED is   *)
(* absorbing, and an entry that reached ESTABLISHED never returns to a  *)
(* handshake state.                                                     *)
C32_StateStep ==
    \A k \in DOMAIN conntrack_map :
        /\ k \in DOMAIN conntrack_map'
        /\ conntrack_map'[k].state >= conntrack_map[k].state
        /\ conntrack_map'[k].state <= CT_STATE_CLOSED
        /\ conntrack_map[k].state = CT_STATE_CLOSED
           => conntrack_map'[k].state = CT_STATE_CLOSED
        /\ conntrack_map[k].state >= CT_STATE_ESTABLISHED
           => conntrack_map'[k].state >= CT_STATE_ESTABLISHED

C32_StateMonotone == [][C32_StateStep]_vars

(* a SYN reached conntrack_update on a closed entry, which stayed closed *)
C32_Witness ==
    /\ last.seen /\ last.parsed /\ last.action = XDP_PASS
    /\ last.pkt.ip_proto = IPPROTO_TCP /\ last.pkt.tcp_flags = TCP_FLAG_SYN
    /\ Has(conntrack_map, FwdKey(last.pkt, IPPROTO_TCP))
    /\ conntrack_map[FwdKey(last.pkt, IPPROTO_TCP)].state = CT_STATE_CLOSED
    /\ conntrack_map[FwdKey(last.pkt, IPPROTO_TCP)].packets_fwd >= 3

(* ================================================================== *)
(* SpecTcpState: tcp_state_validate on its own, called again and      *)
(* again on the segments of one tracked flow, with the packet         *)
(* context's l4_offset holding the offset of the TCP header, as the   *)
(* validator expects it from the parser.                              *)
(* ================================================================== *)
MaxValidations == 258

StateFrames == { SynA, AckClient }

(* the context of frame f with l4_offset filled in *)
WithL4Offset(f) ==
    [parse_packet(f).pkt EXCEPT !.l4_offset = ETH_HLEN + 4 * f.ihl]

(* the flow's entry as conntrack_update creates it, or as the cookie    *)
(* check creates it                                                     *)
TrackedFlows ==
    { NewCt(NSEC_PER_SEC, SynA.tot_len, CT_STATE_NEW, 0),
      NewCt(NSEC_PER_SEC, SynA.tot_len, CT_STATE_ESTABLISHED,
            CT_FLAG_SYN_COOKIE_VERIFIED) }

InitTcpState ==
    /\ \E e \in {0, ESCALATION_HIGH} :
          config = Cfg((CFG_ENABLED :> 1) @@ (CFG_CONNTRACK_ENABLE :> 1)
                       @@ (CFG_PROTO_VALID_ENABLE :> 1) @@ (CFG_TCP_STATE_ENABLE :> 1)
                       @@ (CFG_ESCALATION_LEVEL :> e))
    /\ whitelist_v4 = EmptyMap /\ blacklist_v4 = EmptyMap
    /\ NoTables
    /\ syn_cookie_map = [seed_current |-> Seed0, seed_previous |-> U32Zero]
    /\ now = NSEC_PER_SEC
    /\ stats_map = [n \in StatNames |-> 0]
    /\ events = <<>>
    /\ rate_limit_map = EmptyMap
    /\ global_rate_map = [k \in {0, 1} |-> ZeroRl]
    /\ \E ct \in TrackedFlows :
          conntrack_map = (FwdKey(parse_packet(SynA).pkt, IPPROTO_TCP) :> ct)
    /\ reputation_map = EmptyMap
    /\ port_scan_map = EmptyMap
    /\ adaptive_rate_map = EmptyMap
    /\ payload_hits = EmptyMap
    /\ ring_free = RingSlots
    /\ OneCpu
    /\ last = NoPacket
    /\ npkts = 0

(* one call of tcp_state_validate *)
ValidateTcp ==
    /\ npkts < MaxValidations
    /\ \E f \in StateFrames :
         \E pkt \in {WithL4Offset(f)} :
          \E r \in {tcp_state_validate(f, pkt, DpState, now)} :
            /\ stats_map' = r.st.stats
            /\ events' = r.st.events
            /\ conntrack_map' = r.st.conntrack_map
            /\ ring_free' = r.st.ring_free
            /\ last' = [seen |-> TRUE, ctx |-> f, pkt |-> pkt, verdict |-> r.verdict]
    /\ npkts' = npkts + 1
    /\ UNCHANGED <<smp_vars, ctl_vars, rate_limit_map, global_rate_map, reputation_map,
                   port_scan_map, adaptive_rate_map, payload_hits, now>>

NextTcpState == ValidateTcp

SpecTcpState == InitTcpState /\ [][NextTcpState]_vars

(* the violation limit in force *)
ViolationLimit ==
    IF get_config(CFG_ESCALATION_LEVEL) >= ESCALATION_HIGH THEN 1
    ELSE TCP_VIOLATION_LIMIT

(* C29 as stated: once a TCP conntrack entry's violation counter        *)
(* exceeds the threshold (3 at LOW/MEDIUM, 1 at HIGH/CRITICAL), every   *)
(* later violating packet on that entry is dropped, and the counter     *)
(* never falls back to or below the threshold.                          *)
C29_LatchedStep ==
    /\ npkts' = npkts + 1
    /\ Violates(last'.pkt)
    /\ conntrack_map[FwdKey(last'.pkt, IPPROTO_TCP)].violation_count > ViolationLimit
    =>
    /\ last'.verdict = VERDICT_DROP
    /\ stats_map'["tcp_state_dropped"] = stats_map["tcp_state_dropped"] + 1
    /\ conntrack_map'[FwdKey(last'.pkt, IPPROTO_TCP)].violation_count > ViolationLimit

MaxLimiterPackets == 7
MaxLimiterRate == 2
LimiterStart == 2 * NSEC_PER_SEC
MaxLimiterTime == LimiterStart + NSEC_PER_SEC

LimiterFrames == { UdpFrame(IpA, IpSrv, 5000, 8080, <<>>) }

(* the buckets of rate r at LimiterStart: at most the burst in tokens,  *)
(* last refilled now, a part of a token's time ago, or long ago         *)
BucketsAtStart(r) ==
    { [ tokens |-> t, last_refill_ns |-> LimiterStart - age, rate_pps |-> r,
        burst_size |-> r * 2, total_packets |-> 0, dropped_packets |-> 0 ] :
      t \in 0..(2 * r), age \in {0, (NSEC_PER_SEC \div r) - 1, NSEC_PER_SEC} }

InitLimiter ==
    /\ \E r \in 1..MaxLimiterRate :
         /\ config = Cfg((CFG_ENABLED :> 1) @@ (CFG_UDP_RATE_PPS :> r))
         /\ \/ rate_limit_map = EmptyMap
            \/ \E rl \in BucketsAtStart(r) : rate_limit_map = (IpA :> rl)
    /\ whitelist_v4 = EmptyMap /\ blacklist_v4 = EmptyMap
    /\ NoTables
    /\ syn_cookie_map = [seed_current |-> Seed0, seed_previous |-> U32Zero]
    /\ now = LimiterStart
    /\ stats_map = [n \in StatNames |-> 0]
    /\ events = <<>>
    /\ global_rate_map = [k \in {0, 1} |-> ZeroRl]
    /\ conntrack_map = EmptyMap
    /\ reputation_map = EmptyMap
    /\ port_scan_map = EmptyMap
    /\ adaptive_rate_map = EmptyMap
    /\ payload_hits = EmptyMap
    /\ ring_free = RingSlots
    /\ OneCpu
    /\ last = NoPacket
    /\ npkts = 0

LimiterPacket == Receive(LimiterFrames, MaxLimiterPackets)

LimiterClock == Tick({NSEC_PER_SEC \div 4}, MaxLimiterTime)

NextLimiter == LimiterPacket \/ LimiterClock

SpecLimiter == InitLimiter /\ [][NextLimiter]_vars

(* C33: with a constant rate R > 0 and one source, the packets that     *)
(* rate_limit_check has passed in the T seconds since LimiterStart are  *)
(* at most 2R + R*T + 1 (both sides times NSEC_PER_SEC, T being         *)
(* (now - LimiterStart) / NSEC_PER_SEC).                                *)
C33_SourceBounded ==
    stats_map["tx_packets"] * NSEC_PER_SEC
      <= (2 * config[CFG_UDP_RATE_PPS] + 1) * NSEC_PER_SEC
         + config[CFG_UDP_RATE_PPS] * (now - LimiterStart)

(* the limiter has passed a full burst and a refill, then refused *)
C33_Witness ==
    /\ last.seen /\ last.action = XDP_DROP
    /\ last.walk[Len(last.walk)] = [stage |-> "rate_limit", verdict |-> VERDICT_DROP]
    /\ now > LimiterStart
    /\ stats_map["tx_packets"] >= 2 * config[CFG_UDP_RATE_PPS] + 1
    /\ stats_map["rate_limited"] >= 1
    /\ rate_limit_map[IpA].tokens = 0

(* ================================================================== *)
(* SpecWorkers: two workers (CPUs) run the stages that install        *)
(* adaptive overrides, each access to a shared map being a step of    *)
(* its own: the atomic add on a rule's hit_count, the lookup in       *)
(* adaptive_rate_map and the insert with BPF_NOEXIST.  The payload    *)
(* stage is entered with payload_offset holding the offset of the L4  *)
(* payload, as check_payload_rule expects it from the parser.         *)
(* ================================================================== *)
MaxWorkerPackets == 4

Workers == {1, 2}

(* a datagram and an echo request with the one payload byte b *)
UdpByte(saddr, b) == UdpFrame(saddr, IpSrv, 5000, 7, <<b>>)

EchoByte(saddr, b) == [EchoFrame(saddr, 1) EXCEPT !.payload = <<b>>]

(* the context of frame f with payload_offset filled in *)
WithPayloadOffset(f) ==
    [parse_packet(f).pkt EXCEPT
        !.payload_offset = ETH_HLEN + 4 * f.ihl + UDPHDR_LEN]

(* rule b - 1 matches the payload byte b and has action b - 1 *)
ByteRule(b) ==
    [ZeroRule EXCEPT !.pattern = <<b>>, !.mask = <<255>>, !.pattern_len = 1,
                     !.action = b - 1]

(* the stage and the frame a worker is handed *)
Jobs ==
    ({"threat_intel", "geoip"} \X {UdpByte(IpA, 2), EchoByte(IpA, 2), UdpByte(IpB, 2)})
    \cup ({"payload_match"} \X {UdpByte(IpA, 1), UdpByte(IpA, 2), UdpByte(IpA, 3),
                                EchoByte(IpA, 2), UdpByte(IpA, 9)})

JobPkt(job) ==
    IF job[1] = "payload_match" THEN WithPayloadOffset(job[2])
    ELSE parse_packet(job[2]).pkt

InitWorkers ==
    /\ \E udp \in {0, 1, 8} : \E icmp \in {0, 8} : \E global \in {0, 2} :
          config = Cfg((CFG_ENABLED :> 1) @@ (CFG_THREAT_INTEL_EN :> 1)
                       @@ (CFG_GEOIP_ENABLE :> 1) @@ (CFG_PAYLOAD_MATCH_EN :> 1)
                       @@ (CFG_SYN_RATE_PPS :> 8) @@ (CFG_UDP_RATE_PPS :> udp)
                       @@ (CFG_ICMP_RATE_PPS :> icmp)
                       @@ (CFG_GLOBAL_PPS_LIMIT :> global))
    /\ whitelist_v4 = EmptyMap /\ blacklist_v4 = EmptyMap
    /\ threat_intel_map = Trie({Pfx(32, IpA)}, [confidence |-> 90, action |-> 1])
    /\ geoip_map = Trie({Pfx(32, IpA)}, [country_code |-> 1])
    /\ geoip_policy = (1 :> GEOIP_ACTION_RATE_LIMIT)
    /\ attack_sig_map = EmptyMap
    /\ attack_sig_cnt = 0
    /\ payload_rule_map = [i \in 0..2 |-> ByteRule(i + 1)]
    /\ payload_rule_cnt = 3
    /\ port_proto_map = EmptyMap
    /\ syn_cookie_map = [seed_current |-> Seed0, seed_previous |-> U32Zero]
    /\ now = NSEC_PER_SEC
    /\ stats_map = [n \in StatNames |-> 0]
    /\ events = <<>>
    /\ rate_limit_map = EmptyMap
    /\ global_rate_map = [k \in {0, 1} |-> ZeroRl]
    /\ conntrack_map = EmptyMap
    /\ reputation_map = EmptyMap
    /\ port_scan_map = EmptyMap
    /\ adaptive_rate_map = EmptyMap
    /\ payload_hits = EmptyMap
    /\ ring_free = RingSlots
    /\ percpu = EmptyMap
    /\ inflight = EmptyMap
    /\ last = [seen |-> FALSE, matched |-> [i \in 0..2 |-> 0]]
    /\ npkts = 0

(* whether threat_intel_check takes its rate-limit branch for the packet *)
(* (threat_intel.h:66-96)                                                *)
IntelRateLimits(pkt) ==
    /\ get_config(CFG_THREAT_INTEL_EN) # 0
    /\ LpmHit(threat_intel_map, pkt.src_ip)
    /\ LpmGet(threat_intel_map, pkt.src_ip).action = 1
    /\ LpmGet(threat_intel_map, pkt.src_ip).confidence
         >= (IF get_config(CFG_ESCALATION_LEVEL) >= ESCALATION_CRITICAL THEN 10
             ELSE IF get_config(CFG_ESCALATION_LEVEL) >= ESCALATION_HIGH THEN 30
             ELSE 50)

(* whether geoip_check takes its rate-limit branch (geoip.h:97) *)
GeoRateLimits(pkt) ==
    /\ get_config(CFG_GEOIP_ENABLE) # 0
    /\ LpmHit(geoip_map, pkt.src_ip)
    /\ Has(geoip_policy, LpmGet(geoip_map, pkt.src_ip).country_code)
    /\ geoip_policy[LpmGet(geoip_map, pkt.src_ip).country_code]
         = GEOIP_ACTION_RATE_LIMIT

(* the first rule payload_match_check finds matching, or -1 *)
MatchedRule(ctx, pkt) ==
    IF get_config(CFG_PAYLOAD_MATCH_EN) = 0 THEN -1
    ELSE IF pkt.payload_offset = 0 \/ pkt.l4_payload_len = 0 THEN -1
    ELSE LET rule_count == IF payload_rule_cnt > PAYLOAD_MAX_CHECK
                           THEN PAYLOAD_MAX_CHECK ELSE payload_rule_cnt
             M == {idx \in 0..(rule_count - 1) : PayloadRuleMatches(ctx, pkt, idx)}
         IN  IF M = {} THEN -1 ELSE CHOOSE i \in M : \A j \in M : i <= j

(* the base rate each stage reads for the packet, and its divisor *)
StageBase(stage, pkt) ==
    IF stage = "payload_match"
    THEN CASE pkt.ip_proto = IPPROTO_TCP -> get_config(CFG_SYN_RATE_PPS)
           [] pkt.ip_proto = IPPROTO_UDP -> get_config(CFG_UDP_RATE_PPS)
           [] OTHER -> get_config(CFG_GLOBAL_PPS_LIMIT)
    ELSE BaseRate(pkt)

StageDivisor(stage) ==
    CASE stage = "threat_intel"  -> THREAT_INTEL_RATE_LIMIT_DIVISOR
      [] stage = "geoip"         -> GEOIP_RATE_LIMIT_DIVISOR
      [] stage = "payload_match" -> PAYLOAD_RATE_LIMIT_DIVISOR

(* base / divisor, 1 if that is 0 *)
Stricter(base_rate, divisor) ==
    IF base_rate \div divisor = 0 THEN 1 ELSE base_rate \div divisor

(* bpf_map_update_elem(..., BPF_NOEXIST): fails when the key is present *)
UpdateNoExist(map, key, val) == IF Has(map, key) THEN map ELSE Put(map, key, val)

(* a plain load and store in place of the atomic add: seen is the value *)
(* hit_count had when the rule was looked up                             *)
FetchAdd_load_store(hits, idx, seen) == Put(hits, idx, seen + 1)

(* __sync_fetch_and_add(&rule->hit_count, 1) *)
FetchAdd(hits, idx, seen) ==
    Put(hits, idx, (IF Has(hits, idx) THEN hits[idx] ELSE 0) + 1)

HitCount(idx) == IF Has(payload_hits, idx) THEN payload_hits[idx] ELSE 0

(* worker w is done with its packet *)
Done(w, verdict) ==
    /\ inflight' = [v \in DOMAIN inflight \ {w} |-> inflight[v]]
    /\ last' = [seen |-> TRUE, matched |-> last.matched, worker |-> w,
                stage |-> inflight[w].stage, pkt |-> inflight[w].pkt,
                from |-> inflight[w].pc, verdict |-> verdict]

(* a worker takes a packet into a stage, up to the stage's first access *)
(* to hit_count or adaptive_rate_map                                    *)
Arrive ==
    /\ npkts < MaxWorkerPackets
    /\ \E w \in Workers \ DOMAIN inflight : \E job \in Jobs :
       \E pkt \in {JobPkt(job)} : \E idx \in {MatchedRule(job[2], pkt)} :
          /\ inflight' = Put(inflight, w,
                [ pc |-> IF job[1] = "payload_match" /\ idx >= 0 THEN "hit"
                         ELSE IF job[1] = "threat_intel" /\ IntelRateLimits(pkt)
                         THEN "lookup"
                         ELSE IF job[1] = "geoip" /\ GeoRateLimits(pkt) THEN "lookup"
                         ELSE "return",
                  stage |-> job[1], ctx |-> job[2], pkt |-> pkt, idx |-> idx,
                  seen |-> IF idx >= 0 THEN HitCount(idx) ELSE 0, value |-> 0 ])
          /\ last' = IF job[1] = "payload_match" /\ idx >= 0
                     THEN [last EXCEPT !.matched[idx] = @ + 1] ELSE last
    /\ npkts' = npkts + 1
    /\ UNCHANGED <<ctl_vars, dp_vars, percpu, now>>

(* the stage took none of the branches above: the rest of it *)
Return ==
    /\ \E w \in DOMAIN inflight :
         /\ inflight[w].pc = "return"
         /\ \E r \in {RunStage(inflight[w].stage, inflight[w].ctx, inflight[w].pkt,
                               DpState, now)} :
              /\ stats_map' = r.st.stats
              /\ events' = r.st.events
              /\ ring_free' = r.st.ring_free
              /\ adaptive_rate_map' = r.st.adaptive_rate_map
              /\ payload_hits' = r.st.payload_hits
              /\ Done(w, r.verdict)
    /\ UNCHANGED <<ctl_vars, rate_limit_map, global_rate_map, conntrack_map,
                   reputation_map, port_scan_map, percpu, now, npkts>>

(* payload_handle_action: the atomic add, and the action's own effects *)
Hit ==
    /\ \E w \in DOMAIN inflight :
         /\ inflight[w].pc = "hit"
         /\ payload_hits' = FetchAdd(payload_hits, inflight[w].idx, inflight[w].seen)
         /\ IF RuleAt(inflight[w].idx).action = 1
            THEN /\ inflight' = [inflight EXCEPT ![w].pc = "lookup"]
                 /\ UNCHANGED <<stats_map, events, ring_free, last>>
            ELSE \E r \in {payload_handle_action(RuleAt(inflight[w].idx),
                                                 inflight[w].idx, inflight[w].pkt,
                                                 DpState)} :
                   /\ stats_map' = r.st.stats
                   /\ events' = r.st.events
                   /\ ring_free' = r.st.ring_free
                   /\ Done(w, r.verdict)
    /\ UNCHANGED <<ctl_vars, rate_limit_map, global_rate_map, conntrack_map,
                   reputation_map, port_scan_map, adaptive_rate_map, percpu,
                   now, npkts>>

(* bpf_map_lookup_elem(&adaptive_rate_map, &pkt->src_ip) and, on a miss, *)
(* the base rate from config_map                                         *)
Lookup ==
    /\ \E w \in DOMAIN inflight :
         /\ inflight[w].pc = "lookup"
         /\ IF Has(adaptive_rate_map, inflight[w].pkt.src_ip)
               \/ StageBase(inflight[w].stage, inflight[w].pkt) = 0
            THEN Done(w, VERDICT_PASS)
            ELSE /\ inflight' = [inflight EXCEPT
                       ![w].pc = "insert",
                       ![w].value = Stricter(StageBase(inflight[w].stage,
                                                       inflight[w].pkt),
                                             StageDivisor(inflight[w].stage))]
                 /\ UNCHANGED last
    /\ UNCHANGED <<ctl_vars, dp_vars, percpu, now, npkts>>

(* bpf_map_update_elem(&adaptive_rate_map, ..., BPF_NOEXIST); the stage  *)
(* returns VERDICT_PASS whatever the update returned                     *)
Insert ==
    /\ \E w \in DOMAIN inflight :
         /\ inflight[w].pc = "insert"
         /\ adaptive_rate_map' = UpdateNoExist(adaptive_rate_map,
                                               inflight[w].pkt.src_ip,
                                               inflight[w].value)
         /\ Done(w, VERDICT_PASS)
    /\ UNCHANGED <<ctl_vars, stats_map, events, rate_limit_map, global_rate_map,
                   conntrack_map, reputation_map, port_scan_map, payload_hits,
                   ring_free, percpu, now, npkts>>

NextWorkers == Arrive \/ Return \/ Hit \/ Lookup \/ Insert

SpecWorkers == InitWorkers /\ [][NextWorkers]_vars

(* C34 as stated: an adaptive override for a source is installed by the *)
(* threat-intel, GeoIP and payload stages only when none exists and the *)
(* base protocol rate is non-zero, with value max(1, base rate /        *)
(* divisor); once present it is never changed; when two workers race to *)
(* install one for the same source exactly one value is stored, the     *)
(* losing insert is ignored, and both packets pass the stage.           *)
C34_InstallStep ==
    /\ \A ip \in DOMAIN adaptive_rate_map :
          Has(adaptive_rate_map', ip) /\ adaptive_rate_map'[ip] = adaptive_rate_map[ip]
    /\ adaptive_rate_map' # adaptive_rate_map
       => \E w \in DOMAIN inflight :
            /\ w \notin DOMAIN inflight'
            /\ ~Has(adaptive_rate_map, inflight[w].pkt.src_ip)
            /\ BaseRate(inflight[w].pkt) # 0
            /\ adaptive_rate_map' =
                 Put(adaptive_rate_map, inflight[w].pkt.src_ip,
                     Stricter(BaseRate(inflight[w].pkt),
                              StageDivisor(inflight[w].stage)))
    /\ \A w \in DOMAIN inflight \ DOMAIN inflight' :
          inflight[w].pc \in {"lookup", "insert"} => last'.verdict = VERDICT_PASS

C35_HitsCounted ==
    \A idx \in DOMAIN payload_rule_map :
        HitCount(idx)
          + Cardinality({w \in DOMAIN inflight :
                            inflight[w].pc = "hit" /\ inflight[w].idx = idx})
        = last.matched[idx]

(* both workers matched the same rule at the same time, and each of the *)
(* three actions has counted                                            *)
C35_Witness ==
    /\ inflight = EmptyMap
    /\ HitCount(0) >= 1 /\ HitCount(1) >= 2 /\ HitCount(2) >= 1
    /\ last.matched[1] = HitCount(1)
    /\ last.seen /\ last.stage = "payload_match"


(* ================================================================== *)
(* SpecSmp: two CPUs.  rate_limit_map, conntrack_map, reputation_map  *)
(* and port_scan_map are BPF_MAP_TYPE_LRU_PERCPU_HASH and stats_map   *)
(* and global_rate_map BPF_MAP_TYPE_PERCPU_ARRAY (maps.h): the keys of *)
(* a per-CPU hash are common to the CPUs, each CPU has a value of its *)
(* own under a key, bpf_map_lookup_elem and bpf_map_update_elem work  *)
(* on the value of the CPU that runs the program, and an update that  *)
(* creates a key leaves the other CPUs' values zero-filled.           *)
(* conntrack_map, ... are CPU 0's values, percpu holds CPU 1's.       *)
(* ================================================================== *)
MaxSmpPackets == 3

Cpus == {0, 1}

PerCpuHashes == {"rate_limit_map", "conntrack_map", "reputation_map", "port_scan_map"}

PerCpuArrays == {"stats", "global_rate_map"}

(* the value a CPU that did not create the key finds under it *)
ZeroSlot(v) == [f \in DOMAIN v |-> IF f = "seq_expected" THEN U32Zero ELSE 0]

(* the data-plane state the program sees on a CPU *)
CpuState(cpu) ==
    IF cpu = 0 THEN DpState
    ELSE [f \in DOMAIN DpState |->
             IF f \in PerCpuHashes \cup PerCpuArrays THEN percpu[f] ELSE DpState[f]]

(* the values of per-CPU hash m on a CPU other than the one that ran:  *)
(* the keys the run created appear zero-filled, the rest is untouched  *)
OtherSlots(mine, after) ==
    [k \in DOMAIN after |-> IF k \in DOMAIN mine THEN mine[k] ELSE ZeroSlot(after[k])]

(* CPU 0's and CPU 1's values once cpu has run the program to state st *)
SlotsAfter(cpu, st) ==
    [c \in Cpus |->
       [f \in PerCpuHashes \cup PerCpuArrays |->
          IF c = cpu THEN st[f]
          ELSE IF f \in PerCpuArrays THEN CpuState(c)[f]
          ELSE OtherSlots(CpuState(c)[f], st[f])]]

(* a frame of F arrives on a receive queue served by cpu *)
ReceiveOn(cpu, F, max_packets) ==
    /\ npkts < max_packets
    /\ \E ctx \in F :
         \E r \in {xdp_ddos_scrubber(ctx, CpuState(cpu), now)} :
           \E s \in {SlotsAfter(cpu, r.st)} :
             /\ stats_map' = s[0]["stats"]
             /\ global_rate_map' = s[0]["global_rate_map"]
             /\ rate_limit_map' = s[0]["rate_limit_map"]
             /\ conntrack_map' = s[0]["conntrack_map"]
             /\ reputation_map' = s[0]["reputation_map"]
             /\ port_scan_map' = s[0]["port_scan_map"]
             /\ percpu' = s[1]
             /\ events' = r.st.events
             /\ adaptive_rate_map' = r.st.adaptive_rate_map
             /\ payload_hits' = r.st.payload_hits
             /\ ring_free' = r.st.ring_free
             /\ last' = [seen |-> TRUE, ctx |-> ctx, action |-> r.action,
                         walk |-> r.walk, parsed |-> r.parsed, pkt |-> r.pkt,
                         reply |-> r.st.reply, at |-> now, cpu |-> cpu]
    /\ npkts' = npkts + 1
    /\ UNCHANGED <<inflight, ctl_vars, now>>

(* A's later segment of the connection, and an ACK of no connection *)
LaterAckA == TcpFrame(IpA, IpSrv, 12345, 80, TCP_FLAG_ACK, <<1001, 0>>, <<7, 0>>)

StrayAckB == TcpFrame(IpB, IpSrv, 12345, 80, TCP_FLAG_ACK, <<1001, 0>>, <<7, 0>>)

SmpFrames == {AckA, LaterAckA, StrayAckB, SynA}

SmpConfigs ==
    { Cfg((CFG_ENABLED :> 1) @@ (CFG_SYN_COOKIE_ENABLE :> 1)
          @@ (CFG_CONNTRACK_ENABLE :> ct) @@ (CFG_SYN_RATE_PPS :> r))
      : ct \in {0, 1}, r \in {0, 1} }

InitSmp ==
    /\ config \in SmpConfigs
    /\ whitelist_v4 = EmptyMap /\ blacklist_v4 = EmptyMap
    /\ NoTables
    /\ syn_cookie_map = [seed_current |-> Seed0, seed_previous |-> U32Zero]
    /\ now = NSEC_PER_SEC
    /\ InitTables /\ ring_free = RingSlots
    /\ inflight = EmptyMap
    /\ percpu = [f \in PerCpuHashes \cup PerCpuArrays |-> DpState[f]]

Cpu0Packet == ReceiveOn(0, SmpFrames, MaxSmpPackets)

Cpu1Packet == ReceiveOn(1, SmpFrames, MaxSmpPackets)

SmpClock == Tick({NSEC_PER_SEC}, 2 * NSEC_PER_SEC)

NextSmp == Cpu0Packet \/ Cpu1Packet \/ SmpClock

SpecSmp == InitSmp /\ [][NextSmp]_vars

(* the value of the tuple's conntrack entry on a CPU, if the key exists *)
CtOn(cpu, key) == CpuState(cpu)["conntrack_map"][key]

(* some CPU's value for A's tuple is the one a validated cookie ACK     *)
(* installs: ESTABLISHED with the cookie-verified flag                  *)
InstalledOn(cpu) ==
    /\ Has(CpuState(cpu)["conntrack_map"], TupleA)
    /\ CtOn(cpu, TupleA).state = CT_STATE_ESTABLISHED
    /\ CtOn(cpu, TupleA).flags = CT_FLAG_SYN_COOKIE_VERIFIED

StageVerdict(walk, name) ==
    {walk[i].verdict : i \in {j \in DOMAIN walk : walk[j].stage = name}}

(* C36: flow state is honoured whichever worker handles a packet: once  *)
(* one worker has validated a cookie ACK and installed the ESTABLISHED  *)
(* conntrack entry, a later pure ACK of the flow handled by the other   *)
(* worker finds that entry, and the SYN-cookie and ACK-flood stages     *)
(* pass it.                                                             *)
C36_OtherWorkerStep ==
    \A cpu \in Cpus :
      ( /\ InstalledOn(cpu)
        /\ npkts' = npkts + 1 /\ last'.ctx = LaterAckA /\ last'.cpu # cpu )
      =>
      ( /\ Has(CpuState(last'.cpu)["conntrack_map"], TupleA)
        /\ CtOn(last'.cpu, TupleA).state = CT_STATE_ESTABLISHED
        /\ StageVerdict(last'.walk, "syn_flood") = {VERDICT_PASS}
        /\ StageVerdict(last'.walk, "ack_flood") = {VERDICT_PASS} )

C36_FlowStateOnAnyWorker == [][C36_OtherWorkerStep]_vars

(* what does hold: the other worker finds the key, and both stages pass *)
SmpKeyFoundStep ==
    \A cpu \in Cpus :
      ( /\ InstalledOn(cpu)
        /\ npkts' = npkts + 1 /\ last'.ctx = LaterAckA /\ last'.cpu # cpu )
      =>
      ( /\ Has(CpuState(last'.cpu)["conntrack_map"], TupleA)
        /\ StageVerdict(last'.walk, "syn_flood") = {VERDICT_PASS}
        /\ StageVerdict(last'.walk, "ack_flood") = {VERDICT_PASS} )

SmpKeyFoundAndPassed == [][SmpKeyFoundStep]_vars


(* ---------------------------------------------------------------- *)
(* The ACL stage on a source in both lists (specification Spec).     *)
(* ---------------------------------------------------------------- *)
InBothLists(addr) == LpmHit(whitelist_v4, addr) /\ LpmHit(blacklist_v4, addr)

BlacklistEvents(log) ==
    Cardinality({i \in DOMAIN log : log[i].drop_reason = DROP_BLACKLIST})

(* C37: the whitelist takes priority over the blacklist: for a source   *)
(* that matches a whitelist prefix and a blacklist prefix acl_check     *)
(* returns PASS, acl_dropped is not incremented and no event is emitted *)
C37_BothListsStep ==
    ( PacketStep /\ InBothLists(last'.pkt.src_ip) )
    =>
    \E st \in {stats_rx(DpState, last'.pkt.pkt_len)} :
        /\ acl_check(last'.pkt, st) = Ret(VERDICT_PASS, st)
        /\ last'.walk[1] = [stage |-> "acl", verdict |-> VERDICT_PASS]
        /\ stats_map'["acl_dropped"] = stats_map["acl_dropped"]
        /\ BlacklistEvents(events') = BlacklistEvents(events)

C37_WhitelistOverBlacklist == [][C37_BothListsStep]_vars

C37_Witness ==
    /\ last.seen /\ last.parsed
    /\ InBothLists(last.pkt.src_ip)
    /\ Pfx(32, IpA) \in DOMAIN blacklist_v4
    /\ last.walk[1] = [stage |-> "acl", verdict |-> VERDICT_PASS]
    /\ stats_map["acl_dropped"] = 0
    /\ events = <<>>


(* ================================================================== *)
(* SpecSynAck: the SYN branch of syn_flood_check (syn_flood.h:106-258) *)
(* entered with the TCP header's offset in pkt->l4_offset, on SYNs    *)
(* with further flags and with VLAN tags.                             *)
(* ================================================================== *)
MaxSynPackets == 2

SynExtras ==
    { 0, TCP_FLAG_PSH, TCP_FLAG_URG, TCP_FLAG_ECE, TCP_FLAG_CWR,
      TCP_FLAG_ECE + TCP_FLAG_CWR, TCP_FLAG_PSH + TCP_FLAG_URG,
      TCP_FLAG_FIN, TCP_FLAG_ACK }

SynFrames ==
    UNION { { f, VlanFrame(f), Vlan2Frame(f) } :
            f \in { TcpFrame(IpA, IpSrv, 12345, 80, TCP_FLAG_SYN + x,
                             <<65535, 65535>>, U32Zero) : x \in SynExtras } }

(* the packet context with the offset of the TCP header filled in *)
WithTcpOffset(f) ==
    [parse_packet(f).pkt EXCEPT !.l4_offset = SkipVlan(f).l3 + 4 * f.ihl]

InitSynAck ==
    /\ \E on \in {0, 1} :
          config = Cfg((CFG_ENABLED :> 1) @@ (CFG_SYN_COOKIE_ENABLE :> on))
    /\ whitelist_v4 = EmptyMap /\ blacklist_v4 = EmptyMap
    /\ NoTables
    /\ \E c \in CookieSeeds, p \in CookieSeeds :
          syn_cookie_map = [seed_current |-> c, seed_previous |-> p]
    /\ now = NSEC_PER_SEC
    /\ InitDataPlane

AnswerSyn ==
    /\ npkts < MaxSynPackets
    /\ \E f \in SynFrames :
         \E pkt \in {WithTcpOffset(f)} :
          \E r \in {syn_flood_check(f, pkt, DpState, now)} :
            /\ stats_map' = r.st.stats
            /\ events' = r.st.events
            /\ conntrack_map' = r.st.conntrack_map
            /\ ring_free' = r.st.ring_free
            /\ last' = [seen |-> TRUE, ctx |-> f, pkt |-> pkt,
                        verdict |-> r.verdict, reply |-> r.st.reply]
    /\ npkts' = npkts + 1
    /\ UNCHANGED <<smp_vars, ctl_vars, rate_limit_map, global_rate_map, reputation_map,
                   port_scan_map, adaptive_rate_map, payload_hits, now>>

NextSynAck == AnswerSyn

SpecSynAck == InitSynAck /\ [][NextSynAck]_vars

(* the fields of the frame the branch touched, as the description of    *)
(* the reply has them                                                   *)
ExpectedReply(ctx, cookie) ==
    [ saddr |-> ctx.daddr, daddr |-> ctx.saddr,
      source |-> ctx.dest, dest |-> ctx.source,
      seq |-> cookie, ack_seq |-> U32Inc(ctx.seq),
      flags |-> TCP_FLAG_SYN + TCP_FLAG_ACK,
      ttl |-> 64, id |-> 0, window |-> 65535, check |-> 0,
      ip_check_over |-> SkipVlan(ctx).l3, ip_check_at |-> SkipVlan(ctx).l3 + 10 ]

SynAckPlainRewrite ==
    ( /\ last.seen /\ last.verdict = VERDICT_TX
      /\ last.ctx.flags = TCP_FLAG_SYN /\ Len(last.ctx.h_proto) = 1 )
    => last.reply = <<ExpectedReply(last.ctx,
                          syn_cookie_generate(last.pkt, syn_cookie_map.seed_current,
                                              mss_to_index(1460)))>>


(* ================================================================== *)
(* SpecForged: syn_cookie_validate (syn_flood.h:57-82) on ACKs whose  *)
(* acknowledgement number is an issued cookie plus one, or differs    *)
(* from one in its low two bits or in the bit above them.             *)
(* ================================================================== *)
(* the cookie the SYN branch issues: the MSS index is that of 1460    *)
(* (syn_flood.h:116-117)                                              *)
IssuedCookie(pkt, seed) == syn_cookie_generate(pkt, seed, mss_to_index(1460))

IssuedCookies(pkt) ==
    { IssuedCookie(pkt, syn_cookie_map.seed_current),
      IssuedCookie(pkt, syn_cookie_map.seed_previous) }

(* cookie with its low two bits replaced by low, and bit 2 flipped or not *)
Altered(cookie, low, flip) ==
    <<(((cookie[1] \div 4) + flip) * 4 + low) % 65536, cookie[2]>>

InitForged == InitCookie

ForgedAck ==
    /\ ~last.seen
    /\ \E f \in CookieSyns, low \in 0..3, flip \in {0, 1} :
         \E pkt \in {parse_packet([f EXCEPT !.flags = TCP_FLAG_ACK]).pkt} :
           \E issued \in IssuedCookies(pkt) :
             \E cookie \in {Altered(issued, low, flip)} :
                last' = [seen |-> TRUE, pkt |-> pkt, cookie |-> cookie,
                         valid |-> syn_cookie_validate(pkt, U32Inc(cookie))]
    /\ UNCHANGED <<smp_vars, ctl_vars, dp_vars, now, npkts>>

NextForged == ForgedAck

SpecForged == InitForged /\ [][NextForged]_vars

(* C39 as stated: syn_cookie_validate accepts an ack_seq only if        *)
(* ack_seq - 1 is exactly a cookie the scrubber issues for the tuple    *)
(* under seed_current or seed_previous, MSS index 3 included; a value   *)
(* that differs from the issued cookie only in its low two bits is      *)
(* rejected.                                                            *)
C39_OnlyIssuedCookies ==
    last.seen /\ last.valid => last.cookie \in IssuedCookies(last.pkt)

(* what the validation does compare: the 30 hash bits *)
ForgedHashBitsOnly ==
    last.seen =>
        ( last.valid <=>
          \E c \in IssuedCookies(last.pkt) : c[2] = last.cookie[2]
                                             /\ c[1] \div 4 = last.cookie[1] \div 4 )


(* ================================================================== *)
(* SpecEscalation: packets go through the pipeline and through        *)
(* tcp_state_validate, and the control plane raises                   *)
(* CFG_ESCALATION_LEVEL (types.h:86, 94-97) with nothing else changed. *)
(* ================================================================== *)
MaxEscalationPackets == 4

EscalationFrames ==
    { SynA,
      TcpFrame(IpA, IpSrv, 12345, 80, TCP_FLAG_FIN, <<1001, 0>>, U32Zero),
      UdpFrame(IpB, IpSrv, 5000, 8080, <<>>) }

(* confidence scores on both sides of the thresholds 30, 50 and 80 *)
IntelEntries ==
    { [confidence |-> c, action |-> 0] : c \in {25, 35, 60, 90} }
    \cup { [confidence |-> 60, action |-> 1] }

InitEscalation ==
    /\ config = Cfg((CFG_ENABLED :> 1) @@ (CFG_THREAT_INTEL_EN :> 1)
                    @@ (CFG_GEOIP_ENABLE :> 1) @@ (CFG_CONNTRACK_ENABLE :> 1)
                    @@ (CFG_PROTO_VALID_ENABLE :> 1) @@ (CFG_TCP_STATE_ENABLE :> 1)
                    @@ (CFG_SYN_RATE_PPS :> 8))
    /\ whitelist_v4 = EmptyMap /\ blacklist_v4 = EmptyMap
    /\ \E e \in IntelEntries : threat_intel_map = Trie({Pfx(32, IpB)}, e)
    /\ \E G \in SUBSET {Pfx(32, IpA)} :
          geoip_map = Trie(G, [country_code |-> 1])
    /\ geoip_policy \in {EmptyMap, 1 :> GEOIP_ACTION_PASS}
    /\ attack_sig_map = EmptyMap /\ attack_sig_cnt = 0
    /\ payload_rule_map = EmptyMap /\ payload_rule_cnt = 0
    /\ port_proto_map = EmptyMap
    /\ syn_cookie_map = [seed_current |-> Seed0, seed_previous |-> U32Zero]
    /\ now = NSEC_PER_SEC
    /\ InitDataPlane

EscalationPacket == Receive(EscalationFrames, MaxEscalationPackets)

(* tcp_state_validate with the TCP header's offset in pkt->l4_offset *)
EscalationValidate ==
    /\ npkts < MaxEscalationPackets
    /\ \E f \in EscalationFrames :
         \E pkt \in {WithL4Offset(f)} :
          \E r \in {tcp_state_validate(f, pkt, DpState, now)} :
            /\ stats_map' = r.st.stats
            /\ events' = r.st.events
            /\ conntrack_map' = r.st.conntrack_map
            /\ ring_free' = r.st.ring_free
            /\ last' = [seen |-> TRUE, ctx |-> f, pkt |-> pkt, verdict |-> r.verdict]
    /\ npkts' = npkts + 1
    /\ UNCHANGED <<smp_vars, ctl_vars, rate_limit_map, global_rate_map, reputation_map,
                   port_scan_map, adaptive_rate_map, payload_hits, now>>

(* the control plane writes a higher level into config_map *)
Escalate ==
    /\ \E e \in 1..ESCALATION_CRITICAL :
          /\ e > config[CFG_ESCALATION_LEVEL]
          /\ config' = [config EXCEPT ![CFG_ESCALATION_LEVEL] = e]
    /\ UNCHANGED <<smp_vars, whitelist_v4, blacklist_v4, threat_intel_map, geoip_map,
                   geoip_policy, attack_sig_map, attack_sig_cnt, payload_rule_map,
                   payload_rule_cnt, port_proto_map, syn_cookie_map, dp_vars,
                   now, last, npkts>>

NextEscalation == EscalationPacket \/ EscalationValidate \/ Escalate

SpecEscalation == InitEscalation /\ [][NextEscalation]_vars

(* what the pipeline and the TCP state validator answer on each frame   *)
(* in the current state                                                 *)
VerdictsNow ==
    [f \in EscalationFrames |->
        [ action |-> xdp_ddos_scrubber(f, DpState, now).action,
          tcp_state |-> tcp_state_validate(f, WithL4Offset(f), DpState, now).verdict ]]

(* C40: raising the escalation level never relaxes a verdict: on the    *)
(* same packet, tables and configuration, a packet the pipeline drops   *)
(* at level e is dropped at every level above e, and so is a packet     *)
(* the TCP state validator drops.                                       *)
C40_RaiseStep ==
    config'[CFG_ESCALATION_LEVEL] > config[CFG_ESCALATION_LEVEL]
    =>
    \E before \in {VerdictsNow}, after \in {VerdictsNow'} :
        \A f \in EscalationFrames :
            /\ before[f].action = XDP_DROP => after[f].action = XDP_DROP
            /\ before[f].tcp_state = VERDICT_DROP => after[f].tcp_state = VERDICT_DROP

C40_EscalationTightens == [][C40_RaiseStep]_vars

(* the level was raised to HIGH or above: B, listed with confidence 60, *)
(* is dropped by the pipeline now, and A's FIN, a fourth violation on   *)
(* its entry, is dropped by the validator as it was before              *)
C40_Witness ==
    /\ config[CFG_ESCALATION_LEVEL] >= ESCALATION_HIGH
    /\ LpmGet(threat_intel_map, IpB) = [confidence |-> 60, action |-> 0]
    /\ \E f \in EscalationFrames :
          f.saddr = IpB /\ VerdictsNow[f].action = XDP_DROP
    /\ Has(conntrack_map, TupleA) /\ conntrack_map[TupleA].violation_count = 3
    /\ \E f \in EscalationFrames :
          f.flags = TCP_FLAG_FIN /\ VerdictsNow[f].tcp_state = VERDICT_DROP

====
